---- MODULE Spec2Model ----
(***************************************************************************)
(* best-of-generator: the project enrichment, filtering, ranking and       *)
(* bucketing pipeline of best_of/projects_collection.py.                   *)
(*                                                                         *)
(* A project record (addict Dict) is a function from field names to        *)
(* values; a field that was never set is not in its DOMAIN.  Reading a     *)
(* missing attribute of a Dict yields an empty Dict, which is falsy, so    *)
(* the code's "if not project_info.x" is ~Truthy(project_info, "x").       *)
(* Dates are datetimes counted in months; raw dates of the sources are     *)
(* strings that parse() turns into datetimes or rejects.                   *)
(***************************************************************************)
EXTENDS Integers, Sequences, FiniteSets, TLC

VARIABLES
    projects,            \* the catalog: the list handed to collect_projects_info
    raw_categories,      \* the category ids the user declares, in order
    raw_config,          \* the configuration the user wrote
    categories,          \* keys of the OrderedDict of prepare_categories, in order
    configuration,       \* the Dict of prepare_configuration
    world,               \* what the external services answer during this run
    pc,                  \* position in the run
    i,                   \* index of the catalog entry the loop is at
    project_info,        \* the record being enriched (Dict(project))
    projects_processed,  \* the list collect_projects_info builds and returns
    unique_projects,     \* lower-cased names seen so far
    buckets,             \* categories[c].projects / .hidden_projects
    status_md            \* the activity tag the renderer gives each returned record

vars == <<projects, raw_categories, raw_config, categories, configuration, world, pc, i,
          project_info, projects_processed, unique_projects, buckets, status_md>>

----------------------------------------------------------------------------
(* Bounds of the model *)

\* metric values reported by sources and catalog entries range over 0..MaxMetric
MaxMetric == 2
\* datetimes range over the months 1..MaxDate
MaxDate == 3

(* Program constants *)

MIN_PROJECT_DESC_LENGTH == 10
DEFAULT_OTHERS_CATEGORY_ID == "others"

----------------------------------------------------------------------------
(* Values *)

\* Python's None, for a key that is present and holds None
None == "<None>"

\* the empty addict Dict / empty lookup result
EmptyDict == << >>

Has(d, f) == f \in DOMAIN d

\* "if d.f": the attribute is present and neither None, "", 0 nor False
TruthyS(d, f) == Has(d, f) /\ d[f] # None /\ d[f] # ""
TruthyN(d, f) == Has(d, f) /\ d[f] # 0
TruthyD(d, f) == Has(d, f)
TruthyB(d, f) == Has(d, f) /\ d[f] = TRUE

\* d.f = v
Put(d, f, v) == [k \in DOMAIN d \cup {f} |-> IF k = f THEN v ELSE d[k]]

\* str.lower() on the strings of the model
Lower(s) ==
    CASE s = "Foo" -> "foo"
      [] s = "FOO" -> "foo"
      [] s = "Bar" -> "bar"
      [] s = "Baz" -> "baz"
      [] s = "A" -> "a"
      [] s = "B" -> "b"
      [] s = "C" -> "c"
      [] s = "D" -> "d"
      [] s = "Unknown" -> "unknown"
      [] s = "UNKNOWN" -> "unknown"
      [] s = "Other" -> "other"
      [] s = "OTHER" -> "other"
      [] s = "NOASSERTION" -> "noassertion"
      [] s = "NoAssertion" -> "noassertion"
      [] s = "MIT" -> "mit"
      [] s = "Apache-2.0" -> "apache-2.0"
      [] s = "GPL-3.0" -> "gpl-3.0"
      [] s = "Proprietary" -> "proprietary"
      [] OTHER -> s

\* the raw timestamp string a source sends for month t
DateStr(t) == "2020-" \o ToString(t) \o "-01T00:00:00Z"

\* a raw timestamp dateutil cannot parse
BadDate == "not a date"

Months == 1 .. MaxDate

\* dateutil.parser.parse(str(raw)): the datetime, or an exception
ParseOk(raw) == \E t \in Months : DateStr(t) = raw
parse(raw) == CHOOSE t \in Months : DateStr(t) = raw

\* urlparse(url).path on the repository urls of the model
UrlPath(url) ==
    CASE url = "https://github.com/o/r" -> "/o/r"
      [] url = "https://github.com/" -> "/"
      [] url = "https://gitlab.com/o/r" -> "/o/r"
      [] OTHER -> ""

\* str.strip("/") on those paths
StripSlash(path) ==
    CASE path = "/o/r" -> "o/r"
      [] path = "/" -> ""
      [] OTHER -> path

\* "github" in url
ContainsGithub(url) == url \in {"https://github.com/o/r", "https://github.com/"}

\* '/' in github_id
HasSlash(s) == s \in {"o/r"}

\* utils.process_description: the cleaned text, empty when nothing is left
process_description(text) ==
    CASE text = "   " -> ""
      [] text = ":tada:" -> ""
      [] text = "  a package that does X and Y  " -> "a package that does X and Y"
      [] OTHER -> text

----------------------------------------------------------------------------
(* Field merges shared by the adapters *)

\* a metric merge that adds the reported number to the one on the record
MergeMetric_Sum(p, f, info, g) ==
    IF TruthyN(info, g)
    THEN IF ~TruthyN(p, f) THEN Put(p, f, info[g])
         ELSE Put(p, f, p[f] + info[g])
    ELSE p

\* numeric metric: "always use the highest number"
MergeMetric(p, f, info, g) ==
    IF TruthyN(info, g)
    THEN IF ~TruthyN(p, f) THEN Put(p, f, info[g])
         ELSE IF p[f] < info[g] THEN Put(p, f, info[g])
         ELSE p
    ELSE p

\* a merge of updated_at that takes the reported date whatever the record holds
MergeUpdatedAt_Incoming(p, info, g) ==
    IF TruthyS(info, g)
    THEN IF ~ParseOk(info[g]) THEN p
         ELSE Put(p, "updated_at", parse(info[g]))
    ELSE p

\* updated_at: "always use the latest available date"
MergeUpdatedAt(p, info, g) ==
    IF TruthyS(info, g)
    THEN IF ~ParseOk(info[g]) THEN p
         ELSE IF ~TruthyD(p, "updated_at") THEN Put(p, "updated_at", parse(info[g]))
         ELSE IF p["updated_at"] < parse(info[g])
              THEN Put(p, "updated_at", parse(info[g]))
         ELSE p
    ELSE p

\* a merge of created_at that keeps the newest date instead of the oldest
MergeCreatedAt_Newest(p, info, g) ==
    IF TruthyS(info, g)
    THEN IF ~ParseOk(info[g]) THEN p
         ELSE IF ~TruthyD(p, "created_at") THEN Put(p, "created_at", parse(info[g]))
         ELSE IF p["created_at"] < parse(info[g])
              THEN Put(p, "created_at", parse(info[g]))
         ELSE p
    ELSE p

\* created_at: "always use the oldest available date"
MergeCreatedAt(p, info, g) ==
    IF TruthyS(info, g)
    THEN IF ~ParseOk(info[g]) THEN p
         ELSE IF ~TruthyD(p, "created_at") THEN Put(p, "created_at", parse(info[g]))
         ELSE IF p["created_at"] > parse(info[g])
              THEN Put(p, "created_at", parse(info[g]))
         ELSE p
    ELSE p

\* description: replaced while missing or shorter than the minimum
MergeDescription(p, info) ==
    IF (~TruthyS(p, "description") \/ Len(p["description"]) < MIN_PROJECT_DESC_LENGTH)
       /\ TruthyS(info, "description")
    THEN IF process_description(info["description"]) # ""
         THEN Put(p, "description", process_description(info["description"]))
         ELSE p
    ELSE p

----------------------------------------------------------------------------
(* Source adapters.  Each takes the record and what the service answered  *)
(* and gives the record as the adapter leaves it.                          *)

\* lines 29-35: homepage, from the first usable url of the package
PackageHomepage(p, info) ==
    IF TruthyS(p, "homepage") THEN p
    ELSE IF TruthyS(info, "homepage") /\ Lower(info["homepage"]) # "unknown"
         THEN Put(p, "homepage", info["homepage"])
    ELSE IF TruthyS(info, "repository_url") /\ Lower(info["repository_url"]) # "unknown"
         THEN Put(p, "homepage", info["repository_url"])
    ELSE IF TruthyS(info, "package_manager_url")
            /\ Lower(info["package_manager_url"]) # "unknown"
         THEN Put(p, "homepage", info["package_manager_url"])
    ELSE p

\* lines 37-38
PackageName(p, info) ==
    IF ~TruthyS(p, "name") /\ TruthyS(info, "name")
    THEN Put(p, "name", info["name"])
    ELSE p

\* lines 40-44: github_id and github_url from the repository url
PackageGithubId(p, info) ==
    IF ~TruthyS(p, "github_id") /\ TruthyS(info, "repository_url")
    THEN IF ContainsGithub(info["repository_url"]) /\ UrlPath(info["repository_url"]) # ""
         THEN Put(Put(p, "github_id", StripSlash(UrlPath(info["repository_url"]))),
                  "github_url", info["repository_url"])
         ELSE p
    ELSE p

\* a package merge that takes the package's license whatever the record holds
PackageLicense_Overwrite(p, info) ==
    IF Has(info, "normalized_licenses") /\ Len(info["normalized_licenses"]) > 0
    THEN IF Lower(info["normalized_licenses"][1]) = "other"
         THEN Put(p, "license", None)
         ELSE Put(p, "license", info["normalized_licenses"][1])
    ELSE p

\* lines 46-54: the first normalized license, None when it is "other"
PackageLicense(p, info) ==
    IF ~TruthyS(p, "license") /\ Has(info, "normalized_licenses")
       /\ Len(info["normalized_licenses"]) > 0
    THEN IF Lower(info["normalized_licenses"][1]) = "other"
         THEN Put(p, "license", None)
         ELSE Put(p, "license", info["normalized_licenses"][1])
    ELSE p

update_package_via_libio(p, info) ==
    IF p = EmptyDict \/ info = EmptyDict THEN p
    ELSE
    LET p1 == PackageHomepage(p, info)
        p2 == PackageName(p1, info)
        p3 == PackageGithubId(p2, info)
        p4 == PackageLicense(p3, info)
        p5 == MergeUpdatedAt(p4, info, "latest_release_published_at")
        p6 == MergeUpdatedAt(p5, info, "versions_0_published_at")
        p7 == MergeMetric(p6, "star_count", info, "stars")
        p8 == MergeMetric(p7, "fork_count", info, "forks")
        p9 == MergeMetric(p8, "sourcerank", info, "rank")
    IN  MergeDescription(p9, info)

\* the three libraries.io package adapters share one shape
LibioPackageAdapter(p, idf, urlf, prefix, info) ==
    IF ~TruthyS(p, idf) THEN p
    ELSE IF info = EmptyDict THEN p
    ELSE update_package_via_libio(
            IF ~TruthyS(p, urlf) THEN Put(p, urlf, prefix \o p[idf]) ELSE p,
            info)

update_via_conda(p, info) ==
    LibioPackageAdapter(p, "conda_id", "conda_url", "https://anaconda.org/anaconda/", info)

update_via_npm(p, info) ==
    LibioPackageAdapter(p, "npm_id", "npm_url", "https://www.npmjs.com/package/", info)

\* stats is what pypistats.recent answers: a download count, or EmptyDict
\* when the call or the json access raises
update_via_pypi(p, info, stats) ==
    IF ~TruthyS(p, "pypi_id") THEN p
    ELSE IF info = EmptyDict THEN p
    ELSE LET q == LibioPackageAdapter(p, "pypi_id", "pypi_url",
                                      "https://pypi.org/project/", info)
         IN  IF Has(stats, "last_month")
             THEN Put(q, "pypi_monthly_downloads", stats["last_month"])
             ELSE q

\* info.status is the http status; a request that raises has no status
update_via_dockerhub(p, info) ==
    IF ~TruthyS(p, "dockerhub_id") THEN p
    ELSE
    LET p1 == IF ~TruthyS(p, "dockerhub_url")
              THEN Put(p, "dockerhub_url", "https://hub.docker.com/r/" \o p["dockerhub_id"])
              ELSE p
    IN  IF ~Has(info, "status") \/ info["status"] # 200 THEN p1
        ELSE
        LET p2 == MergeUpdatedAt(p1, info, "last_updated")
            p3 == IF TruthyN(info, "star_count")
                  THEN Put(p2, "dockerhub_stars", info["star_count"]) ELSE p2
            p4 == IF TruthyN(info, "pull_count")
                  THEN Put(p3, "dockerhub_pulls", info["pull_count"]) ELSE p3
        IN  MergeDescription(p4, info)

\* an adapter that goes on with whatever the request returned
update_via_github_api_AnyStatus(p, token, info) ==
    IF ~TruthyS(p, "github_id") THEN p
    ELSE IF ~token THEN p
    ELSE IF ~HasSlash(p["github_id"]) THEN p
    ELSE
    LET p1 == IF ~TruthyS(p, "github_url") /\ TruthyS(info, "url")
              THEN Put(p, "github_url", info["url"]) ELSE p
        p2 == IF ~TruthyS(p1, "homepage")
              THEN Put(p1, "homepage", IF Has(p1, "github_url") THEN p1["github_url"] ELSE None)
              ELSE p1
        p3 == IF ~TruthyS(p2, "license") /\ TruthyS(info, "licenseInfo_spdxId")
                 /\ Lower(info["licenseInfo_spdxId"]) # "noassertion"
              THEN Put(p2, "license", info["licenseInfo_spdxId"]) ELSE p2
        p4 == MergeCreatedAt(p3, info, "createdAt")
        p5 == MergeUpdatedAt(p4, info, "pushedAt")
        p6 == MergeMetric(p5, "fork_count", info, "forks_totalCount")
        p7 == MergeMetric(p6, "open_issue_count", info, "issues_totalCount")
        p8 == MergeMetric(p7, "star_count", info, "stargazers_totalCount")
    IN  MergeDescription(p8, info)

\* token: GITHUB_API_KEY is set in the environment
update_via_github_api(p, token, info) ==
    IF ~TruthyS(p, "github_id") THEN p
    ELSE IF ~token THEN p
    ELSE IF ~HasSlash(p["github_id"]) THEN p
    ELSE IF ~Has(info, "status") \/ info["status"] # 200 THEN p
    ELSE
    LET p1 == IF ~TruthyS(p, "github_url") /\ TruthyS(info, "url")
              THEN Put(p, "github_url", info["url"]) ELSE p
        p2 == IF ~TruthyS(p1, "homepage")
              THEN Put(p1, "homepage", IF Has(p1, "github_url") THEN p1["github_url"] ELSE None)
              ELSE p1
        p3 == IF ~TruthyS(p2, "license") /\ TruthyS(info, "licenseInfo_spdxId")
                 /\ Lower(info["licenseInfo_spdxId"]) # "noassertion"
              THEN Put(p2, "license", info["licenseInfo_spdxId"]) ELSE p2
        p4 == MergeCreatedAt(p3, info, "createdAt")
        p5 == MergeUpdatedAt(p4, info, "pushedAt")
        p6 == MergeMetric(p5, "fork_count", info, "forks_totalCount")
        p7 == MergeMetric(p6, "open_issue_count", info, "issues_totalCount")
        p8 == MergeMetric(p7, "star_count", info, "stargazers_totalCount")
    IN  MergeDescription(p8, info)

update_repo_via_libio(p, info) ==
    IF ~TruthyS(p, "github_id") THEN p
    ELSE IF ~HasSlash(p["github_id"]) THEN p
    ELSE IF info = EmptyDict THEN p
    ELSE
    LET p1 == IF ~TruthyS(p, "github_url")
              THEN Put(p, "github_url", "https://github.com/" \o p["github_id"]) ELSE p
        p2 == IF ~TruthyS(p1, "homepage") THEN Put(p1, "homepage", p1["github_url"]) ELSE p1
        p3 == IF ~TruthyS(p2, "license") /\ TruthyS(info, "license")
                 /\ Lower(info["license"]) # "other"
              THEN Put(p2, "license", info["license"]) ELSE p2
        p4 == MergeCreatedAt(p3, info, "created_at")
        p5 == MergeUpdatedAt(p4, info, "pushed_at")
        p6 == MergeMetric(p5, "sourcerank", info, "rank")
        p7 == MergeMetric(p6, "fork_count", info, "forks_count")
        p8 == MergeMetric(p7, "contributor_count", info, "contributions_count")
        p9 == MergeMetric(p8, "open_issue_count", info, "open_issues_count")
        p10 == MergeMetric(p9, "star_count", info, "stargazers_count")
    IN  MergeDescription(p10, info)

----------------------------------------------------------------------------
(* License table (best_of/license.py) *)

licenses == <<
    [name |-> "MIT", spdx_id |-> "MIT", keywords |-> << >>],
    [name |-> "Apache-2.0", spdx_id |-> "Apache-2.0",
     keywords |-> <<"apache-2", "apache-license-2.0">>],
    [name |-> "ISC", spdx_id |-> "ISC", keywords |-> << >>],
    [name |-> "BSD-3-Clause", spdx_id |-> "BSD-3-Clause", keywords |-> <<"bsd-3">>],
    [name |-> "GPL-3.0", spdx_id |-> "GPL-3.0", keywords |-> <<"gpl-3">>],
    [name |-> "GPL-2.0", spdx_id |-> "GPL-2.0", keywords |-> <<"gpl-2">>],
    [name |-> "MPL-2.0", spdx_id |-> "MPL-2.0", keywords |-> <<"mpl-2">>],
    [name |-> "BSD-2-Clause", spdx_id |-> "BSD-2-Clause",
     keywords |-> <<"bsd-2", "freebsd">>],
    [name |-> "LGPL-3.0", spdx_id |-> "LGPL-3.0", keywords |-> <<"lgpl-3">>],
    [name |-> "AGPL-3.0", spdx_id |-> "AGPL-3.0", keywords |-> <<"agpl-3">>],
    [name |-> "Unlicense", spdx_id |-> "Unlicense", keywords |-> << >>] >>

\* utils.simplify_str: lower case, punctuation removed
simplify_str(text) ==
    CASE text \in {"MIT", "mit", "Mit", "M.I.T"} -> "mit"
      [] text \in {"Apache-2.0", "apache-2.0", "Apache 2.0", "APACHE-2.0"} -> "apache20"
      [] text \in {"apache-2", "Apache-2"} -> "apache2"
      [] text = "apache-license-2.0" -> "apachelicense20"
      [] text \in {"ISC", "isc"} -> "isc"
      [] text \in {"BSD-3-Clause", "bsd-3-clause"} -> "bsd3clause"
      [] text = "bsd-3" -> "bsd3"
      [] text \in {"GPL-3.0", "gpl-3.0"} -> "gpl30"
      [] text = "gpl-3" -> "gpl3"
      [] text \in {"GPL-2.0", "gpl-2.0"} -> "gpl20"
      [] text = "gpl-2" -> "gpl2"
      [] text \in {"MPL-2.0", "mpl-2.0"} -> "mpl20"
      [] text = "mpl-2" -> "mpl2"
      [] text \in {"BSD-2-Clause", "bsd-2-clause"} -> "bsd2clause"
      [] text = "bsd-2" -> "bsd2"
      [] text = "freebsd" -> "freebsd"
      [] text \in {"LGPL-3.0", "lgpl-3.0"} -> "lgpl30"
      [] text = "lgpl-3" -> "lgpl3"
      [] text \in {"AGPL-3.0", "agpl-3.0"} -> "agpl30"
      [] text = "agpl-3" -> "agpl3"
      [] text \in {"Unlicense", "unlicense"} -> "unlicense"
      [] text \in {"Proprietary", "proprietary"} -> "proprietary"
      [] text \in {"Other", "other", "OTHER"} -> "other"
      [] OTHER -> text

\* the keys under which licenses[k] is entered in licenses_map
LicenseKeys(k) ==
    {simplify_str(licenses[k].name), simplify_str(licenses[k].spdx_id)}
    \cup {simplify_str(licenses[k].keywords[j]) : j \in DOMAIN licenses[k].keywords}

\* get_license: the entry the map holds for the query (the last that wrote
\* the key), or None
HasLicense(query) == \E k \in DOMAIN licenses : simplify_str(query) \in LicenseKeys(k)

get_license(query) ==
    LET hits == {k \in DOMAIN licenses : simplify_str(query) \in LicenseKeys(k)}
    IN  licenses[CHOOSE k \in hits : \A j \in hits : j <= k]

----------------------------------------------------------------------------
(* Configuration and categories *)

\* a default that is set whether or not the user supplied the key
Default_Always(config, key, value) == Put(config, key, value)

Default(config, key, value) == IF Has(config, key) THEN config ELSE Put(config, key, value)

AllSpdxIds == [k \in DOMAIN licenses |-> licenses[k].spdx_id]

prepare_configuration(config) ==
    LET c1 == Default(config, "project_inactive_months", 6)
        c2 == Default(c1, "project_dead_months", 12)
        c3 == Default(c2, "project_new_months", 6)
        c4 == Default(c3, "min_sourcerank", 5)
        c5 == Default(c4, "min_stars", 100)
        c6 == Default(c5, "require_license", TRUE)
        c7 == Default(c6, "require_pypi", FALSE)
        c8 == Default(c7, "require_github", FALSE)
        c9 == Default(c8, "require_npm", FALSE)
        c10 == Default(c9, "require_conda", FALSE)
        c11 == Default(c10, "markdown_output_file", "README.md")
        c12 == Default(c11, "generate_badges", FALSE)
        c13 == Default(c12, "generate_install_hints", TRUE)
        c14 == Default(c13, "generate_toc", TRUE)
        c15 == Default(c14, "generate_link_shortcuts", FALSE)
        c16 == Default(c15, "generate_legend", TRUE)
        c17 == Default(c16, "sort_by", "sourcerank")
    IN  Default(c17, "allowed_licenses", AllSpdxIds)

RECURSIVE CategoryKeys(_)
\* the keys of the OrderedDict built from the declared category ids, in the
\* order of their first insertion
CategoryKeys(ids) ==
    IF ids = << >> THEN << >>
    ELSE LET front == CategoryKeys(SubSeq(ids, 1, Len(ids) - 1))
             last == ids[Len(ids)]
         IN  IF \E k \in DOMAIN front : front[k] = last THEN front
             ELSE Append(front, last)

InSeq(x, seq) == \E k \in DOMAIN seq : seq[k] = x

prepare_categories(input_categories) ==
    LET keys == CategoryKeys(input_categories)
    IN  IF InSeq(DEFAULT_OTHERS_CATEGORY_ID, keys) THEN keys
        ELSE Append(keys, DEFAULT_OTHERS_CATEGORY_ID)

\* a category check that defaults a missing category only
update_project_category_MissingOnly(p, cats) ==
    IF ~TruthyS(p, "category") THEN Put(p, "category", DEFAULT_OTHERS_CATEGORY_ID) ELSE p

update_project_category(p, cats) ==
    LET p1 == IF ~TruthyS(p, "category")
              THEN Put(p, "category", DEFAULT_OTHERS_CATEGORY_ID) ELSE p
    IN  IF ~InSeq(p1["category"], cats)
        THEN Put(p1, "category", DEFAULT_OTHERS_CATEGORY_ID)
        ELSE p1

----------------------------------------------------------------------------
(* Filtering *)

\* utils.diff_month(d1, d2): whole months from d2 to d1
Year(t) == t \div 12
MonthOfYear(t) == t % 12
diff_month(d1, d2) == (Year(d1) - Year(d2)) * 12 + MonthOfYear(d1) - MonthOfYear(d2)

\* lines 644: name, homepage and a description of some length are required
MissingRequired(p) ==
    \/ ~TruthyS(p, "name")
    \/ ~TruthyS(p, "homepage")
    \/ ~TruthyS(p, "description")
    \/ Len(p["description"]) < MIN_PROJECT_DESC_LENGTH

\* lines 648-649
BelowMinSourcerank(p, config) ==
    TruthyN(config, "min_sourcerank") /\ TruthyN(p, "sourcerank")
    /\ p["sourcerank"] < config["min_sourcerank"]

\* a popularity test that also hides a project exactly at the threshold
BelowMinStars_Inclusive(p, config) ==
    TruthyN(config, "min_stars") /\ TruthyN(p, "star_count")
    /\ p["star_count"] <= config["min_stars"]

\* lines 653-654
BelowMinStars(p, config) ==
    TruthyN(config, "min_stars") /\ TruthyN(p, "star_count")
    /\ p["star_count"] < config["min_stars"]

\* a license test that is never met
LicenseMissing_Never(p, config) == FALSE

\* line 658
LicenseMissing(p, config) == ~TruthyS(p, "license") /\ TruthyB(config, "require_license")

\* lines 662-675
Platforms == {"pypi", "github", "npm", "conda", "dockerhub"}

PlatformMissing(p, config) ==
    \E pf \in Platforms : TruthyB(config, "require_" \o pf) /\ ~TruthyS(p, pf \o "_url")

\* a project license that is compared without looking it up in the table
ProjectLicense_NoLookup(license) == simplify_str(license)

\* lines 679-683: the simplified license, or the simplified spdx id of its entry
ProjectLicense(license) ==
    IF HasLicense(license) THEN simplify_str(get_license(license).spdx_id)
    ELSE simplify_str(license)

\* lines 685-691
AllowedLicenses(allowed) ==
    {simplify_str(allowed[k]) : k \in DOMAIN allowed}
    \cup {simplify_str(get_license(allowed[k]).spdx_id) :
            k \in {j \in DOMAIN allowed : HasLicense(allowed[j])}}

\* lines 678-694
LicenseNotAllowed(p, config) ==
    /\ Has(config, "allowed_licenses") /\ Len(config["allowed_licenses"]) > 0
    /\ TruthyS(p, "license")
    /\ ProjectLicense(p["license"]) \notin AllowedLicenses(config["allowed_licenses"])

\* a dead-project test that grants one month more than the window
IsDead_OneMonthLate(p, config, now) ==
    /\ TruthyD(p, "updated_at")
    /\ TruthyN(config, "project_dead_months")
    /\ config["project_dead_months"] + 1 < diff_month(now, p["updated_at"])

\* lines 697-701
IsDead(p, config, now) ==
    /\ TruthyD(p, "updated_at")
    /\ TruthyN(config, "project_dead_months")
    /\ config["project_dead_months"] < diff_month(now, p["updated_at"])

apply_filters(p, config, now) ==
    Put(p, "show",
        ~ \/ MissingRequired(p)
          \/ BelowMinSourcerank(p, config)
          \/ BelowMinStars(p, config)
          \/ LicenseMissing(p, config)
          \/ PlatformMissing(p, config)
          \/ LicenseNotAllowed(p, config)
          \/ IsDead(p, config, now))

----------------------------------------------------------------------------
(* Ranking *)

\* sort_project_list: the key of a project, missing values counting as 0
SortKey(p, config) ==
    LET sourcerank == IF TruthyN(p, "sourcerank") THEN p["sourcerank"] ELSE 0
        star_count == IF TruthyN(p, "star_count") THEN p["star_count"] ELSE 0
    IN  IF ~TruthyS(config, "sort_by") \/ config["sort_by"] = "sourcerank"
        THEN <<sourcerank, star_count>>
        ELSE IF config["sort_by"] = "star_count" THEN <<star_count, sourcerank>>
        ELSE None

\* tuple comparison
KeyLess(a, b) == a[1] < b[1] \/ (a[1] = b[1] /\ a[2] < b[2])

\* an insertion that puts x in front of the elements of equal key
InsertDesc_BeforeEqual(x, sorted, config) ==
    LET n == Cardinality({k \in DOMAIN sorted :
                            KeyLess(SortKey(x, config), SortKey(sorted[k], config))})
    IN  SubSeq(sorted, 1, n) \o <<x>> \o SubSeq(sorted, n + 1, Len(sorted))

\* x goes behind every element whose key is not smaller than its own
InsertDesc(x, sorted, config) ==
    LET n == Cardinality({k \in DOMAIN sorted :
                            ~KeyLess(SortKey(sorted[k], config), SortKey(x, config))})
    IN  SubSeq(sorted, 1, n) \o <<x>> \o SubSeq(sorted, n + 1, Len(sorted))

RECURSIVE SortDesc(_, _)
SortDesc(ps, config) ==
    IF ps = << >> THEN << >>
    ELSE InsertDesc(ps[Len(ps)], SortDesc(SubSeq(ps, 1, Len(ps) - 1), config), config)

\* sorted(projects, key=sort_project_list, reverse=True): stable
sort_projects(ps, config) == SortDesc(ps, config)

\* a collection of ranks that does not tell the categories apart
CategoryRanks_AllCategories(ps, cat) ==
    LET idx == {k \in DOMAIN ps : TruthyS(ps[k], "category") /\ TruthyN(ps[k], "sourcerank")}
    IN  [k \in idx |-> ps[k]["sourcerank"]]

\* the ranks line 480 collects for a category
CategoryRanks(ps, cat) ==
    LET idx == {k \in DOMAIN ps : TruthyS(ps[k], "category") /\ TruthyN(ps[k], "sourcerank")
                                    /\ ps[k]["category"] = cat}
    IN  [k \in idx |-> ps[k]["sourcerank"]]

\* the m-th smallest (m from 1) of the values of a function of distinct keys
Smallest(f, m) ==
    LET k == CHOOSE k \in DOMAIN f :
                /\ Cardinality({j \in DOMAIN f : f[j] < f[k]}) < m
                /\ Cardinality({j \in DOMAIN f : f[j] <= f[k]}) >= m
    IN  f[k]

\* 100 * np.percentile(ranks, q): linear interpolation between the closest ranks
Percentile100(f, q) ==
    LET n == Cardinality(DOMAIN f)
        pos == q * (n - 1)
        lo == pos \div 100
        frac == pos % 100
    IN  IF frac = 0 THEN 100 * Smallest(f, lo + 1)
        ELSE 100 * Smallest(f, lo + 1)
             + frac * (Smallest(f, lo + 2) - Smallest(f, lo + 1))

\* lines 483-502: the tier of one project
Placing(p, ps) ==
    LET ranks == CategoryRanks(ps, p["category"])
    IN  IF 100 * p["sourcerank"] >= Percentile100(ranks, 90) THEN 1
        ELSE IF 100 * p["sourcerank"] >= Percentile100(ranks, 60) THEN 2
        ELSE 3

calc_sourcerank_placing(ps) ==
    [k \in DOMAIN ps |->
        IF ~TruthyN(ps[k], "sourcerank") \/ ~TruthyS(ps[k], "category") THEN ps[k]
        ELSE Put(ps[k], "sourcerank_placing", Placing(ps[k], ps))]

----------------------------------------------------------------------------
(* Bucketing *)

\* a categorize_projects that ignores no project
Ignored_Never(p) == FALSE

\* lines 509-520: the projects categorize_projects ignores
Ignored(p) == MissingRequired(p)

RECURSIVE CategorizeFrom(_, _, _)
\* the loop of categorize_projects from the k-th project on, b the buckets so far
CategorizeFrom(ps, k, b) ==
    IF k > Len(ps) THEN b
    ELSE LET p == ps[k]
             c == p["category"]
         IN  IF Ignored(p) THEN CategorizeFrom(ps, k + 1, b)
             ELSE IF TruthyB(p, "show")
             THEN CategorizeFrom(ps, k + 1,
                    [b EXCEPT ![c].projects = Append(@, p)])
             ELSE CategorizeFrom(ps, k + 1,
                    [b EXCEPT ![c].hidden_projects = Append(@, p)])

EmptyBuckets(cats) ==
    [c \in {cats[k] : k \in DOMAIN cats} |-> [projects |-> << >>, hidden_projects |-> << >>]]

categorize_projects(ps, cats) == CategorizeFrom(ps, 1, EmptyBuckets(cats))

----------------------------------------------------------------------------
(* Activity tag (best_of/md_generation.py, generate_metrics_info) *)

\* lines 35-38: "if project_total_month": created_at is there and the
\* months since then are not 0
TotalMonth(p, now) ==
    TruthyD(p, "created_at") /\ diff_month(now, p["created_at"]) # 0

\* lines 40-43: "if project_inactive_month"
InactiveMonth(p, now) ==
    TruthyD(p, "updated_at") /\ diff_month(now, p["updated_at"]) # 0

\* line 45
StatusDead(p, config, now) ==
    /\ InactiveMonth(p, now)
    /\ TruthyN(config, "project_dead_months")
    /\ config["project_dead_months"] < diff_month(now, p["updated_at"])

\* line 47
StatusInactive(p, config, now) ==
    /\ InactiveMonth(p, now)
    /\ TruthyN(config, "project_inactive_months")
    /\ config["project_inactive_months"] < diff_month(now, p["updated_at"])

\* line 49
StatusNew(p, config, now) ==
    /\ TotalMonth(p, now)
    /\ TruthyN(config, "project_new_months")
    /\ config["project_new_months"] >= diff_month(now, p["created_at"])

\* lines 33-51: the status of the project, "" for none
generate_metrics_info(p, config, now) ==
    IF StatusDead(p, config, now) THEN "dead"
    ELSE IF StatusInactive(p, config, now) THEN "inactive"
    ELSE IF StatusNew(p, config, now) THEN "new"
    ELSE IF TruthyB(p, "commercial") THEN "commercial"
    ELSE ""

----------------------------------------------------------------------------
(* The run: collect_projects_info, then categorize_projects *)

\* what a run is given and never changes
inputs == <<projects, raw_categories, raw_config, categories, configuration, world>>

\* a loop head that compares names as written, letter case included
NextProject_CaseSensitive ==
    /\ pc = "loop"
    /\ i <= Len(projects)
    /\ project_info' = projects[i]
    /\ IF ~Has(projects[i], "name") \/ projects[i]["name"] = None
       THEN /\ pc' = "aborted"
            /\ UNCHANGED <<i, unique_projects>>
       ELSE IF projects[i]["name"] \in unique_projects
       THEN /\ pc' = "loop"
            /\ i' = i + 1
            /\ UNCHANGED unique_projects
       ELSE /\ pc' = "github_api"
            /\ unique_projects' = unique_projects \cup {projects[i]["name"]}
            /\ UNCHANGED i
    /\ UNCHANGED <<inputs, projects_processed, buckets, status_md>>

\* lines 707-713: the next catalog entry; a duplicate name is skipped, and
\* calling .lower() on a missing or None name raises out of the loop
NextProject ==
    /\ pc = "loop"
    /\ i <= Len(projects)
    /\ project_info' = projects[i]
    /\ IF ~Has(projects[i], "name") \/ projects[i]["name"] = None
       THEN /\ pc' = "aborted"
            /\ UNCHANGED <<i, unique_projects>>
       ELSE IF Lower(projects[i]["name"]) \in unique_projects
       THEN /\ pc' = "loop"
            /\ i' = i + 1
            /\ UNCHANGED unique_projects
       ELSE /\ pc' = "github_api"
            /\ unique_projects' = unique_projects \cup {Lower(projects[i]["name"])}
            /\ UNCHANGED i
    /\ UNCHANGED <<inputs, projects_processed, buckets, status_md>>

\* one adapter call: the record goes from p to q, the run from here to there
Step(here, there, q) ==
    /\ pc = here
    /\ pc' = there
    /\ project_info' = q
    /\ UNCHANGED <<inputs, i, projects_processed, unique_projects, buckets, status_md>>

UpdateViaGithubApi ==
    Step("github_api", "libio_repo",
         update_via_github_api(project_info, world.token, world.github_api))

UpdateRepoViaLibio ==
    Step("libio_repo", "pypi", update_repo_via_libio(project_info, world.libio_repo))

UpdateViaPypi ==
    Step("pypi", "conda", update_via_pypi(project_info, world.pypi, world.pypistats))

UpdateViaConda ==
    Step("conda", "npm", update_via_conda(project_info, world.conda))

UpdateViaNpm ==
    Step("npm", "dockerhub", update_via_npm(project_info, world.npm))

UpdateViaDockerhub ==
    Step("dockerhub", "enriched", update_via_dockerhub(project_info, world.dockerhub))

\* lines 721-723
SetUpdatedAt ==
    Step("enriched", "filters",
         IF ~TruthyD(project_info, "updated_at") /\ TruthyD(project_info, "created_at")
         THEN Put(project_info, "updated_at", project_info["created_at"])
         ELSE project_info)

\* line 726
ApplyFilters ==
    Step("filters", "update", apply_filters(project_info, configuration, world.now))

\* a write-back that only fills the fields the record lacks
UpdateFromProject_FillOnly ==
    Step("update", "category", project_info @@ projects[i])

\* a loop body without the write-back
UpdateFromProject_Skipped ==
    Step("update", "category", project_info)

\* line 729: project_info.update(project)
UpdateFromProject ==
    Step("update", "category", projects[i] @@ project_info)

\* line 732
UpdateProjectCategory ==
    Step("category", "append", update_project_category(project_info, categories))

\* line 734
AppendProcessed ==
    /\ pc = "append"
    /\ projects_processed' = Append(projects_processed, project_info)
    /\ project_info' = EmptyDict
    /\ i' = i + 1
    /\ pc' = "loop"
    /\ UNCHANGED <<inputs, unique_projects, buckets, status_md>>

\* line 736, once the loop is through
SortProjects ==
    /\ pc = "loop"
    /\ i > Len(projects)
    /\ projects_processed' = sort_projects(projects_processed, configuration)
    /\ pc' = "placing"
    /\ UNCHANGED <<inputs, i, project_info, unique_projects, buckets, status_md>>

\* lines 737-739
CalcSourcerankPlacing ==
    /\ pc = "placing"
    /\ projects_processed' = calc_sourcerank_placing(projects_processed)
    /\ pc' = "returned"
    /\ UNCHANGED <<inputs, i, project_info, unique_projects, buckets, status_md>>

\* the caller hands the returned list to categorize_projects
CategorizeProjects ==
    /\ pc = "returned"
    /\ buckets' = categorize_projects(projects_processed, categories)
    /\ pc' = "done"
    /\ UNCHANGED <<inputs, i, project_info, projects_processed, unique_projects, status_md>>

\* generate_category_md: every bucketed record is rendered with its tag; the
\* clock of the renderer is the clock of the run
GenerateMetricsInfo ==
    /\ pc = "done"
    /\ status_md' = [k \in DOMAIN projects_processed |->
                        IF Ignored(projects_processed[k]) THEN None
                        ELSE generate_metrics_info(projects_processed[k], configuration,
                                                   world.now)]
    /\ pc' = "rendered"
    /\ UNCHANGED <<inputs, i, project_info, projects_processed, unique_projects, buckets>>

Next ==
    \/ NextProject
    \/ UpdateViaGithubApi
    \/ UpdateRepoViaLibio
    \/ UpdateViaPypi
    \/ UpdateViaConda
    \/ UpdateViaNpm
    \/ UpdateViaDockerhub
    \/ SetUpdatedAt
    \/ ApplyFilters
    \/ UpdateFromProject
    \/ UpdateProjectCategory
    \/ AppendProcessed
    \/ SortProjects
    \/ CalcSourcerankPlacing
    \/ CategorizeProjects
    \/ GenerateMetricsInfo

----------------------------------------------------------------------------
(* Inputs of a run.  The catalog, the configuration and the answers of the  *)
(* external services are fixed when the run starts; every lookup of one    *)
(* adapter gets the same answer.                                           *)

MetricValues == 0 .. MaxMetric

\* the k-th metric of an answer drawn with number n: the metrics of one
\* answer differ from each other, and each ranges over all of MetricValues
Rot(n, k) == (n + k) % (MaxMetric + 1)

LongDescription == "a tool that does X and Y"

\* the run's clock when dates do not matter
NowDefault == MaxDate

\* no service knows the project, no token is set
QuietWorld ==
    [now |-> NowDefault, token |-> FALSE, github_api |-> [status |-> 404],
     libio_repo |-> EmptyDict, pypi |-> EmptyDict, pypistats |-> EmptyDict,
     conda |-> EmptyDict, npm |-> EmptyDict, dockerhub |-> [status |-> 404]]

DeclaredCategories == <<"tools", "libs">>

\* a catalog entry with every required field, in a declared category
BaseEntry ==
    [name |-> "Foo", homepage |-> "https://x", description |-> LongDescription,
     category |-> "tools", license |-> "MIT"]

\* the state collect_projects_info starts in: the configuration and the
\* categories are prepared from what the user wrote
Start(catalog, user_config, declared, w) ==
    /\ projects = catalog
    /\ raw_config = user_config
    /\ raw_categories = declared
    /\ configuration = prepare_configuration(user_config)
    /\ categories = prepare_categories(declared)
    /\ world = w
    /\ pc = "loop"
    /\ i = 1
    /\ project_info = EmptyDict
    /\ projects_processed = << >>
    /\ unique_projects = {}
    /\ buckets = EmptyBuckets(prepare_categories(declared))
    /\ status_md = << >>

(* Enrichment: one project, the sources' answers vary *)

\* answers of the GitHub API: a failed request, or a repository
GithubApiMetrics ==
    {[status |-> 404], [status |-> 200, url |-> "https://github.com/o/r"]}
    \cup {[status |-> 200, url |-> "https://github.com/o/r",
           forks_totalCount |-> Rot(n, 0), issues_totalCount |-> Rot(n, 1),
           stargazers_totalCount |-> Rot(n, 2)] : n \in MetricValues}

LibioRepoMetrics ==
    {EmptyDict, [full_name |-> "o/r"]}
    \cup {[full_name |-> "o/r", rank |-> Rot(n, 0), forks_count |-> Rot(n, 1),
           contributions_count |-> Rot(n, 2), open_issues_count |-> Rot(n, 0),
           stargazers_count |-> Rot(n, 1)] : n \in MetricValues}

PackageMetrics ==
    {EmptyDict, [platform |-> "libio"]}
    \cup {[platform |-> "libio", stars |-> Rot(n, 0), forks |-> Rot(n, 1),
           rank |-> Rot(n, 2)] : n \in MetricValues}

\* metrics the catalog entry may state itself
EntryMetrics ==
    {EmptyDict}
    \cup {[star_count |-> Rot(n, 0), sourcerank |-> Rot(n, 1)] : n \in MetricValues}

\* raw timestamps: none, one dateutil rejects, or a month
RawDates == {BadDate} \cup {DateStr(t) : t \in Months}

NextMonth(t) == (t % MaxDate) + 1

GithubApiDates ==
    {[status |-> 200, url |-> "https://github.com/o/r"],
     [status |-> 200, url |-> "https://github.com/o/r", createdAt |-> BadDate,
      pushedAt |-> BadDate]}
    \cup {[status |-> 200, url |-> "https://github.com/o/r", createdAt |-> DateStr(t),
           pushedAt |-> DateStr(NextMonth(t))] : t \in Months}

LibioRepoDates ==
    {EmptyDict, [full_name |-> "o/r", created_at |-> BadDate, pushed_at |-> DateStr(1)]}
    \cup {[full_name |-> "o/r", created_at |-> DateStr(t), pushed_at |-> DateStr(t)] :
            t \in Months}

PackageDates ==
    {[platform |-> "libio"],
     [platform |-> "libio", latest_release_published_at |-> BadDate,
      versions_0_published_at |-> DateStr(1)]}
    \cup {[platform |-> "libio", latest_release_published_at |-> DateStr(t)] : t \in Months}
    \cup {[platform |-> "libio", latest_release_published_at |-> DateStr(t),
           versions_0_published_at |-> DateStr(NextMonth(t))] : t \in Months}

DockerhubDates ==
    {[status |-> 404], [status |-> 200, last_updated |-> BadDate]}
    \cup {[status |-> 200, last_updated |-> DateStr(t), star_count |-> 1,
           pull_count |-> 0] : t \in Months}

EntryDates ==
    {EmptyDict}
    \cup {[created_at |-> t] : t \in Months}
    \cup {[created_at |-> NextMonth(t), updated_at |-> t] : t \in Months}

\* strings: homepage, license, name, description, github url
GithubApiStrings ==
    {[status |-> 200, url |-> "https://github.com/o/r",
      licenseInfo_spdxId |-> "NOASSERTION", description |-> "   "],
     [status |-> 200, url |-> "https://github.com/o/r",
      licenseInfo_spdxId |-> "Apache-2.0", description |-> "repository of foo, a tool"],
     [status |-> 200, url |-> "https://github.com/o/r",
      licenseInfo_spdxId |-> "Other", description |-> "short"]}

LibioRepoStrings ==
    {EmptyDict,
     [full_name |-> "o/r", license |-> "Other", description |-> ":tada:"],
     [full_name |-> "o/r", license |-> "NOASSERTION"],
     [full_name |-> "o/r", license |-> "GPL-3.0",
      description |-> "  a package that does X and Y  "]}

PackageStrings ==
    {EmptyDict,
     [platform |-> "libio", name |-> "foo", homepage |-> "Unknown",
      repository_url |-> "https://github.com/o/r", normalized_licenses |-> <<"Other">>,
      description |-> "the foo package of the index"],
     [platform |-> "libio", name |-> "foo", homepage |-> "https://foo.org",
      repository_url |-> "https://gitlab.com/o/r",
      normalized_licenses |-> <<"MIT", "GPL-3.0">>, description |-> "short"],
     [platform |-> "libio", name |-> "foo", homepage |-> "",
      repository_url |-> "UNKNOWN", package_manager_url |-> "https://pypi.org/project/foo",
      normalized_licenses |-> << >>],
     [platform |-> "libio", name |-> "foo", normalized_licenses |-> <<"NoAssertion">>]}

EntryStrings ==
    {[name |-> "Foo"],
     [name |-> "Foo", homepage |-> "https://x", license |-> "MIT",
      description |-> LongDescription, category |-> "tools"],
     [name |-> "", homepage |-> "", license |-> "", description |-> "too short",
      github_url |-> "https://x/git", category |-> "zzz", show |-> TRUE],
     [name |-> "Foo", description |-> "too short", pypi_url |-> "https://x/pypi",
      show |-> FALSE]}

\* the identifiers of the entry decide which adapters look the project up
GithubIds == [github_id |-> "o/r", pypi_id |-> "foo"]
RegistryIds == [pypi_id |-> "foo", conda_id |-> "foo", npm_id |-> "foo", dockerhub_id |-> "o/foo"]

MergeCases ==
    \* metrics, source host and one registry
    {<<e @@ GithubIds,
       [QuietWorld EXCEPT !.token = tok, !.github_api = a, !.libio_repo = r, !.pypi = k]>> :
        e \in EntryMetrics, tok \in BOOLEAN, a \in GithubApiMetrics,
        r \in LibioRepoMetrics, k \in PackageMetrics}
    \cup
    \* metrics, the registries
    {<<e @@ RegistryIds,
       [QuietWorld EXCEPT !.pypi = k, !.conda = c, !.npm = n,
                          !.pypistats = [last_month |-> 1]]>> :
        e \in EntryMetrics, k \in PackageMetrics, c \in PackageMetrics, n \in PackageMetrics}
    \cup
    \* dates, source host and one registry
    {<<e @@ GithubIds,
       [QuietWorld EXCEPT !.token = TRUE, !.github_api = a, !.libio_repo = r, !.pypi = k]>> :
        e \in EntryDates, a \in GithubApiDates, r \in LibioRepoDates, k \in PackageDates}
    \cup
    \* dates, the registries
    {<<e @@ RegistryIds,
       [QuietWorld EXCEPT !.pypi = k, !.npm = n, !.dockerhub = d]>> :
        e \in EntryDates, k \in PackageDates, n \in PackageDates, d \in DockerhubDates}
    \cup
    \* strings
    {<<e @@ ids,
       [QuietWorld EXCEPT !.token = TRUE, !.github_api = a, !.libio_repo = r, !.pypi = k,
                          !.dockerhub = [status |-> 200, description |-> "an image of foo"]]>> :
        e \in EntryStrings, ids \in {GithubIds, RegistryIds, [github_id |-> "nobody"]},
        a \in GithubApiStrings, r \in LibioRepoStrings, k \in PackageStrings}

\* failed lookups: every service fails in each of its ways, or answers
FailureCases ==
    {<<e @@ [github_id |-> "o/r"] @@ RegistryIds,
       [QuietWorld EXCEPT !.token = TRUE, !.github_api = a, !.libio_repo = r, !.pypi = k,
                          !.pypistats = st, !.dockerhub = d]>> :
        e \in {EmptyDict, [homepage |-> ""],
               [homepage |-> "", github_url |-> "https://x/git"]},
        \* status 404, a request that raises, status 200 without repository, a repository
        a \in {[status |-> 404], EmptyDict, [status |-> 200],
               [status |-> 200, url |-> "https://github.com/o/r", stargazers_totalCount |-> 1]},
        r \in {EmptyDict, [full_name |-> "o/r", rank |-> 1]},
        k \in {EmptyDict, [platform |-> "libio", stars |-> 2]},
        st \in {EmptyDict, [last_month |-> 1]},
        d \in {[status |-> 404], EmptyDict,
               [status |-> 200, last_updated |-> DateStr(1), star_count |-> 1]}}

InitMerge ==
    \E c \in MergeCases \cup FailureCases :
        Start(<<c[1] @@ BaseEntry>>, EmptyDict, DeclaredCategories, c[2])

SpecMerge == InitMerge /\ [][Next]_vars

(* Filtering: one project no adapter looks up, the entry and the           *)
(* configuration vary *)

\* name, homepage and description of the entry
RequiredFields ==
    {[name |-> "Foo", homepage |-> "https://x", description |-> LongDescription],
     [name |-> "Foo", description |-> LongDescription],
     [name |-> "Foo", homepage |-> "https://x", description |-> "too short"],
     [name |-> "", homepage |-> "https://x", description |-> LongDescription]}

OptMetric(f) == {EmptyDict} \cup {f :> n : n \in MetricValues}

\* thresholds the user may set; a missing key gets its default
OptThreshold(key) == {EmptyDict, key :> 0, key :> MaxMetric}

PlatformUrls(pfs) == [f \in {pf \o "_url" : pf \in pfs} |-> "https://x/" \o f]

FilterCases ==
    \* required fields, rank and popularity against the thresholds
    {<<r @@ sr @@ st @@ l, ms @@ mt, NowDefault>> :
        r \in RequiredFields, sr \in OptMetric("sourcerank"), st \in OptMetric("star_count"),
        l \in {EmptyDict, [license |-> "MIT"]},
        ms \in OptThreshold("min_sourcerank"), mt \in OptThreshold("min_stars")}
    \cup
    \* license against the allow-list
    {<<RequiredFields1 @@ l @@ sr, rl @@ al @@ [min_stars |-> 0], NowDefault>> :
        RequiredFields1 \in {[name |-> "Foo", homepage |-> "https://x",
                              description |-> LongDescription]},
        l \in {EmptyDict, [license |-> None], [license |-> "MIT"], [license |-> "apache-2"],
               [license |-> "Proprietary"], [license |-> "gpl-3.0"]},
        sr \in {EmptyDict, [sourcerank |-> 0], [sourcerank |-> 1]},
        rl \in {EmptyDict, [require_license |-> FALSE]},
        al \in {EmptyDict, [allowed_licenses |-> << >>], [allowed_licenses |-> <<"mit">>],
                [allowed_licenses |-> <<"Apache-2.0", "GPL-2.0">>],
                [allowed_licenses |-> <<"gpl-3", "Proprietary">>]}}
    \cup
    \* platform urls against the require flags
    {<<[name |-> "Foo", homepage |-> "https://x", description |-> LongDescription,
        license |-> "MIT"] @@ PlatformUrls(pfs) @@ st,
       rq @@ [min_stars |-> 1], NowDefault>> :
        pfs \in SUBSET Platforms, st \in {EmptyDict, [star_count |-> 1]},
        rq \in {EmptyDict} \cup {("require_" \o pf) :> TRUE : pf \in Platforms}
                \cup {[require_pypi |-> TRUE, require_github |-> TRUE]}}
    \cup
    \* the last update against the dead-project window
    {<<[name |-> "Foo", homepage |-> "https://x", description |-> LongDescription] @@ l @@ d,
       dm, now>> :
        l \in {EmptyDict, [license |-> "MIT"]},
        d \in {EmptyDict} \cup {[updated_at |-> t] : t \in Months}
                \cup {[created_at |-> t] : t \in Months},
        dm \in {EmptyDict, [project_dead_months |-> 0], [project_dead_months |-> 1]},
        now \in {MaxDate, MaxDate + 1, MaxDate + 13}}

InitFilter ==
    \E c \in FilterCases :
        Start(<<c[1]>>, c[2], DeclaredCategories, [QuietWorld EXCEPT !.now = c[3]])

SpecFilter == InitFilter /\ [][Next]_vars

(* Collection: several projects no adapter looks up; names, categories and *)
(* completeness vary *)

\* catalogs hold up to MaxProjects entries
MaxProjects == 3

Complete == [homepage |-> "https://x", description |-> LongDescription]

EntryPool ==
    {\* shown, in a declared category
     [name |-> "Foo", category |-> "tools", license |-> "MIT", sourcerank |-> 1] @@ Complete,
     \* the same name in another case; hidden for want of a license
     [name |-> "foo", category |-> "libs", sourcerank |-> 2] @@ Complete,
     \* no category
     [name |-> "Bar", license |-> "MIT", sourcerank |-> 2] @@ Complete,
     \* no homepage, and a category that is not declared
     [name |-> "D", category |-> "zzz", license |-> "MIT", description |-> LongDescription],
     \* a short description, and show stated by the catalog
     [name |-> "FOO", category |-> "tools", license |-> "MIT", homepage |-> "https://x",
      description |-> "too short", show |-> TRUE],
     \* complete, but switched off by the catalog
     [name |-> "Baz", category |-> "tools", license |-> "MIT", sourcerank |-> 2,
      show |-> FALSE] @@ Complete,
     \* no name
     [category |-> "tools", license |-> "MIT"] @@ Complete}

Catalogs == UNION {[1 .. n -> EntryPool] : n \in 0 .. MaxProjects}

LowThresholds == [min_sourcerank |-> 1, min_stars |-> 1]

InitCollect ==
    \E catalog \in Catalogs,
       declared \in {DeclaredCategories, <<"libs", "others", "tools", "libs">>} :
        Start(catalog, LowThresholds, declared, QuietWorld)

SpecCollect == InitCollect /\ [][Next]_vars

(* Ranking: projects with every required field; ranks, popularity and the  *)
(* sort key vary *)

Ranked(name, cat) == [name |-> name, category |-> cat, license |-> "MIT"] @@ Complete

NoThresholds == [min_sourcerank |-> 0, min_stars |-> 0]

OptStars == {EmptyDict, [star_count |-> 0], [star_count |-> 1]}

\* ten projects of one category with the ranks 10, 20, ..., 100
Decade(order) ==
    [k \in 1 .. 10 |->
        [sourcerank |-> 10 * order[k]] @@ Ranked("p" \o ToString(order[k]), "tools")]

RankCases ==
    \* three projects of one category, by rank and popularity
    {<<<<ra @@ sa @@ Ranked("A", "tools"), rb @@ sb @@ Ranked("B", "tools"),
         rc @@ sc @@ Ranked("C", "tools")>>, sb_ @@ NoThresholds>> :
        ra \in OptMetric("sourcerank"), sa \in OptStars,
        rb \in OptMetric("sourcerank"), sb \in OptStars,
        rc \in OptMetric("sourcerank"), sc \in {EmptyDict, [star_count |-> 1]},
        sb_ \in {EmptyDict, [sort_by |-> "star_count"]}}
    \cup
    \* the sort key left empty
    {<<<<ra @@ sa @@ Ranked("A", "tools"), rb @@ Ranked("B", "tools"),
         rc @@ [star_count |-> 1] @@ Ranked("C", "tools")>>,
       [sort_by |-> ""] @@ NoThresholds>> :
        ra \in OptMetric("sourcerank"), sa \in OptStars,
        rb \in OptMetric("sourcerank"), rc \in OptMetric("sourcerank")}
    \cup
    \* four projects over two categories, by rank
    {<<<<ra @@ Ranked("A", ca), rb @@ Ranked("B", cb), rc @@ Ranked("C", "tools"),
         [sourcerank |-> MaxMetric] @@ Ranked("D", "tools")>>, NoThresholds>> :
        ra \in OptMetric("sourcerank"), rb \in OptMetric("sourcerank"),
        rc \in OptMetric("sourcerank"), ca \in {"tools", "libs"}, cb \in {"tools", "libs"}}
    \cup
    {<<Decade([k \in 1 .. 10 |-> k]), EmptyDict>>,
     <<Decade([k \in 1 .. 10 |-> 11 - k]), EmptyDict>>,
     <<Decade(<<3, 10, 1, 7, 5, 9, 2, 8, 6, 4>>), [sort_by |-> "star_count"]>>}

InitRank ==
    \E c \in RankCases : Start(c[1], c[2], DeclaredCategories, QuietWorld)

SpecRank == InitRank /\ [][Next]_vars

(* The end-to-end scenario: one complete project under the default         *)
(* configuration, its rank and popularity stated by the catalog or fetched  *)
(* from libraries.io *)

ScenarioEntry(cat) ==
    [name |-> "Foo", homepage |-> "https://x", description |-> LongDescription,
     category |-> cat]

ScenarioCases ==
    {<<ScenarioEntry(cat) @@ l @@ [sourcerank |-> r, star_count |-> st], QuietWorld>> :
        cat \in {"tools", "libs"}, l \in {EmptyDict, [license |-> "MIT"]},
        r \in {4, 8}, st \in {99, 150}}
    \cup
    {<<ScenarioEntry(cat) @@ l @@ [github_id |-> "o/r"],
       [QuietWorld EXCEPT !.libio_repo = [full_name |-> "o/r", rank |-> r,
                                          stargazers_count |-> st]]>> :
        cat \in {"tools", "libs"}, l \in {EmptyDict, [license |-> "MIT"]},
        r \in {4, 8}, st \in {99, 150}}
    \cup
    \* the catalog states rank and popularity, and libraries.io reports others
    {<<ScenarioEntry("tools") @@ l @@ [github_id |-> "o/r", sourcerank |-> r,
                                       star_count |-> st],
       [QuietWorld EXCEPT !.libio_repo = [full_name |-> "o/r", rank |-> r2,
                                          stargazers_count |-> st2]]>> :
        l \in {EmptyDict, [license |-> "MIT"]},
        r \in {4, 8}, st \in {99, 150}, r2 \in {4, 8}, st2 \in {99, 150}}

InitScenario ==
    \E c \in ScenarioCases : Start(<<c[1]>>, EmptyDict, DeclaredCategories, c[2])

SpecScenario == InitScenario /\ [][Next]_vars

(* Activity: one complete, licensed project; its dates stated by the       *)
(* catalog, reported by libraries.io or both; the three windows and the     *)
(* clock vary *)

\* dates of the catalog entry: none, one, or a creation not after the update
StatusEntryDates ==
    {EmptyDict}
    \cup {[created_at |-> t] : t \in Months}
    \cup {[updated_at |-> t] : t \in Months}
    \cup {[created_at |-> t, updated_at |-> u] : t \in Months, u \in Months}

\* what libraries.io reports for the repository: nothing, or both dates
StatusRepoDates ==
    {EmptyDict}
    \cup {[full_name |-> "o/r", created_at |-> DateStr(t), pushed_at |-> DateStr(u)] :
            t \in Months, u \in Months}

StatusCases ==
    {<<ScenarioEntry("tools") @@ [license |-> "MIT", github_id |-> "o/r"] @@ d @@ x,
       dm @@ im @@ nm,
       [QuietWorld EXCEPT !.libio_repo = r, !.now = now]>> :
        d \in {e \in StatusEntryDates :
                  Has(e, "created_at") /\ Has(e, "updated_at")
                     => e["created_at"] <= e["updated_at"]},
        x \in {EmptyDict, [show |-> TRUE], [commercial |-> TRUE]},
        r \in {a \in StatusRepoDates :
                  a # EmptyDict => parse(a["created_at"]) <= parse(a["pushed_at"])},
        dm \in {EmptyDict, [project_dead_months |-> 0], [project_dead_months |-> 2]},
        im \in {EmptyDict, [project_inactive_months |-> 1]},
        nm \in {EmptyDict, [project_new_months |-> 1]},
        now \in {MaxDate, MaxDate + 1, MaxDate + 13}}

InitStatus ==
    \E c \in StatusCases : Start(<<c[1]>>, c[2], DeclaredCategories, c[3])

SpecStatus == InitStatus /\ [][Next]_vars

\* every run of the model
Init == InitMerge \/ InitFilter \/ InitCollect \/ InitRank \/ InitScenario \/ InitStatus

Spec == Init /\ [][Next]_vars

----------------------------------------------------------------------------
(* Properties of enrichment *)

\* the catalog entry the loop is at
Entry == projects[i]

\* positions at which project_info is the record of Entry
AfterAdapter == {"libio_repo", "pypi", "conda", "npm", "dockerhub", "enriched"}

\* the answers that reach a merge for Entry: the adapter's identifier is on
\* the entry and the lookup succeeded
ApiAnswers ==
    IF TruthyS(Entry, "github_id") /\ HasSlash(Entry["github_id"]) /\ world.token
       /\ Has(world.github_api, "status") /\ world.github_api["status"] = 200
    THEN {world.github_api} ELSE {}

RepoAnswers ==
    IF TruthyS(Entry, "github_id") /\ HasSlash(Entry["github_id"])
    THEN {world.libio_repo} ELSE {}

PackageAnswers ==
    (IF TruthyS(Entry, "pypi_id") THEN {world.pypi} ELSE {})
    \cup (IF TruthyS(Entry, "conda_id") THEN {world.conda} ELSE {})
    \cup (IF TruthyS(Entry, "npm_id") THEN {world.npm} ELSE {})

DockerhubAnswers ==
    IF TruthyS(Entry, "dockerhub_id") /\ Has(world.dockerhub, "status")
       /\ world.dockerhub["status"] = 200
    THEN {world.dockerhub} ELSE {}

Values(answers, g) == {a[g] : a \in {b \in answers : Has(b, g)}}

\* every value of a metric that the catalog entry or a source supplies
Supplied(m) ==
    (IF Has(Entry, m) THEN {Entry[m]} ELSE {})
    \cup
    CASE m = "star_count" ->
            Values(ApiAnswers, "stargazers_totalCount")
            \cup Values(RepoAnswers, "stargazers_count") \cup Values(PackageAnswers, "stars")
      [] m = "fork_count" ->
            Values(ApiAnswers, "forks_totalCount")
            \cup Values(RepoAnswers, "forks_count") \cup Values(PackageAnswers, "forks")
      [] m = "contributor_count" -> Values(RepoAnswers, "contributions_count")
      [] m = "open_issue_count" ->
            Values(ApiAnswers, "issues_totalCount")
            \cup Values(RepoAnswers, "open_issues_count")
      [] m = "sourcerank" ->
            Values(RepoAnswers, "rank") \cup Values(PackageAnswers, "rank")

Metrics == {"star_count", "fork_count", "contributor_count", "open_issue_count", "sourcerank"}

Max(S) == CHOOSE x \in S : \A y \in S : y <= x
Min(S) == CHOOSE x \in S : \A y \in S : x <= y

Parsed(raws) == {parse(r) : r \in {x \in raws : ParseOk(x)}}

\* every creation date the catalog entry or a source supplies
CreatedSupplied ==
    (IF Has(Entry, "created_at") THEN {Entry["created_at"]} ELSE {})
    \cup Parsed(Values(ApiAnswers, "createdAt") \cup Values(RepoAnswers, "created_at"))

\* every update date the catalog entry or a source supplies
UpdatedSupplied ==
    (IF Has(Entry, "updated_at") THEN {Entry["updated_at"]} ELSE {})
    \cup Parsed(Values(ApiAnswers, "pushedAt") \cup Values(RepoAnswers, "pushed_at")
                \cup Values(PackageAnswers, "latest_release_published_at")
                \cup Values(PackageAnswers, "versions_0_published_at")
                \cup Values(DockerhubAnswers, "last_updated"))

C4_MetricIsMaxSupplied ==
    pc = "enriched" =>
        \A m \in Metrics :
            Supplied(m) # {} => Has(project_info, m) /\ project_info[m] = Max(Supplied(m))

\* what the code does instead: a reported 0 counts as no value
MetricIsMaxNonZero ==
    pc = "enriched" =>
        \A m \in Metrics :
            /\ Supplied(m) \ {0} # {} =>
                 Has(project_info, m) /\ project_info[m] = Max(Supplied(m))
            /\ Supplied(m) \ {0} = {} =>
                 IF Has(Entry, m) THEN project_info[m] = Entry[m]
                 ELSE ~Has(project_info, m)

\* no merge step lowers a metric that is on the record
MetricStep ==
    /\ pc \in {"github_api"} \cup AfterAdapter
    /\ pc' \in AfterAdapter
    /\ \E m \in Metrics :
         /\ Has(project_info, m)
         /\ ~(Has(project_info', m) /\ project_info'[m] >= project_info[m])

MetricNeverLowered == [][~MetricStep]_vars

----------------------------------------------------------------------------
(* Properties of apply_filters *)

\* the record apply_filters has just decided on
Filtered == pc = "update"

\* C2 as stated: a project whose sourcerank is present and below
\* min_sourcerank, or whose star_count is present and below min_stars, is
\* hidden, whatever its other fields are.
C2_BelowThresholdHidden ==
    Filtered =>
        /\ Has(project_info, "sourcerank")
           /\ project_info["sourcerank"] < configuration["min_sourcerank"]
           => project_info["show"] = FALSE
        /\ Has(project_info, "star_count")
           /\ project_info["star_count"] < configuration["min_stars"]
           => project_info["show"] = FALSE

\* what the code does instead: a rank or popularity of 0 is never below
BelowThresholdHiddenNonZero ==
    Filtered =>
        /\ Has(project_info, "sourcerank") /\ project_info["sourcerank"] # 0
           /\ project_info["sourcerank"] < configuration["min_sourcerank"]
           => project_info["show"] = FALSE
        /\ Has(project_info, "star_count") /\ project_info["star_count"] # 0
           /\ project_info["star_count"] < configuration["min_stars"]
           => project_info["show"] = FALSE

\* the conditions the specification lists, read off the record
Listed_RequiredMissing(p) ==
    \/ ~Has(p, "name") \/ p["name"] \in {"", None}
    \/ ~Has(p, "homepage") \/ p["homepage"] \in {"", None}
    \/ ~Has(p, "description") \/ p["description"] \in {"", None}
    \/ Len(p["description"]) < MIN_PROJECT_DESC_LENGTH

Listed_RankBelow(p, config) ==
    Has(p, "sourcerank") /\ p["sourcerank"] < config["min_sourcerank"]

Listed_StarsBelow(p, config) ==
    Has(p, "star_count") /\ p["star_count"] < config["min_stars"]

Listed_NoLicense(p, config) ==
    (~Has(p, "license") \/ p["license"] \in {"", None}) /\ config["require_license"]

Listed_PlatformMissing(p, config) ==
    \E pf \in Platforms :
        /\ Has(config, "require_" \o pf) /\ config["require_" \o pf]
        /\ ~Has(p, pf \o "_url")

Listed_LicenseNotAllowed(p, config) ==
    /\ Has(p, "license") /\ p["license"] \notin {"", None}
    /\ ProjectLicense(p["license"]) \notin AllowedLicenses(config["allowed_licenses"])

Listed_Dead(p, config, now) ==
    Has(p, "updated_at") /\ diff_month(now, p["updated_at"]) > config["project_dead_months"]

Listed(p, config, now) ==
    \/ Listed_RequiredMissing(p)
    \/ Listed_RankBelow(p, config)
    \/ Listed_StarsBelow(p, config)
    \/ Listed_NoLicense(p, config)
    \/ Listed_PlatformMissing(p, config)
    \/ Listed_LicenseNotAllowed(p, config)
    \/ Listed_Dead(p, config, now)

\* the record as apply_filters received it
BeforeShow == [f \in DOMAIN project_info \ {"show"} |-> project_info[f]]

\* C3: a project for which none of the listed conditions holds is shown.
C3_ShownUnlessListed ==
    Filtered => (~Listed(BeforeShow, configuration, world.now) => project_info["show"] = TRUE)

\* C3 witness: a shown project with a rank and a popularity at the
\* thresholds, a license of the allow-list and a recent update
C3_Witness ==
    /\ Filtered
    /\ project_info["show"] = TRUE
    /\ Has(project_info, "sourcerank") /\ Has(project_info, "star_count")
    /\ project_info["sourcerank"] = configuration["min_sourcerank"]
    /\ project_info["star_count"] = configuration["min_stars"]
    /\ configuration["min_stars"] > 0
    /\ Has(project_info, "license")

----------------------------------------------------------------------------
(* Properties of collect_projects_info *)

\* collect_projects_info has returned projects_processed
Returned == pc \in {"returned", "done"}

\* catalog entry k is the first of its name, letter case ignored
FirstOfName(k) ==
    /\ Has(projects[k], "name")
    /\ \A j \in 1 .. (k - 1) :
         Has(projects[j], "name") => Lower(projects[j]["name"]) # Lower(projects[k]["name"])

\* record r is what the run made of catalog entry e
RecordOf(r, e) ==
    \A f \in DOMAIN e \ {"category"} : Has(r, f) /\ r[f] = e[f]

\* C6: the returned list holds no two names that are equal ignoring case; it
\* holds the record of the first catalog entry of every name and as many
\* records as there are names, so none for a later entry of a name; a run
\* stops early only at an entry without name, never at a repeated name.
C6_FirstOfEachNameKept ==
    /\ Returned =>
         /\ \A j, k \in DOMAIN projects_processed :
              j # k => Lower(projects_processed[j]["name"]) # Lower(projects_processed[k]["name"])
         /\ \A k \in DOMAIN projects :
              FirstOfName(k) =>
                  \E j \in DOMAIN projects_processed :
                      RecordOf(projects_processed[j], projects[k])
         /\ Len(projects_processed) = Cardinality({k \in DOMAIN projects : FirstOfName(k)})
    /\ pc = "aborted" => ~Has(Entry, "name")

\* C6 witness: three entries, the second and third repeat the name of the
\* first in another case, and one record is returned
C6_Witness ==
    /\ Returned
    /\ Len(projects) = 3
    /\ projects[1]["name"] = "Foo" /\ projects[2]["name"] = "foo" /\ projects[3]["name"] = "FOO"
    /\ Len(projects_processed) = 1
    /\ projects_processed[1]["name"] = "Foo"

\* C7 as stated: an entry without name does not stop the run.
C7_NamelessDoesNotAbort == pc # "aborted"

\* what the code does: every catalog with a nameless entry that is reached
\* ends the run there, with nothing returned
NamelessAborts ==
    /\ pc = "aborted" => ~Has(Entry, "name") /\ buckets = EmptyBuckets(categories)
    /\ Returned => \A k \in DOMAIN projects : Has(projects[k], "name")

----------------------------------------------------------------------------
(* Properties of categorize_projects *)

\* the lists of all buckets, one after the other
AllLists ==
    {<<c, l>> : c \in DOMAIN buckets, l \in {"projects", "hidden_projects"}}

Occurrences(r) ==
    Cardinality({<<cl, k>> \in AllLists \X (1 .. Len(projects_processed)) :
                    /\ k <= Len(buckets[cl[1]][cl[2]])
                    /\ buckets[cl[1]][cl[2]][k] = r})

InList(r, c, l) == \E k \in DOMAIN buckets[c][l] : buckets[c][l][k] = r

\* the list of bucket c that the claim assigns record r to
ListOf(r) == IF Has(r, "show") /\ r["show"] = TRUE THEN "projects" ELSE "hidden_projects"

\* C8 as stated: every returned record is in exactly one list, the one of its
\* category and visibility.
C8_EveryRecordBucketed ==
    pc = "done" =>
        \A k \in DOMAIN projects_processed :
            LET r == projects_processed[k]
            IN  Occurrences(r) = 1 /\ InList(r, r["category"], ListOf(r))

\* l is s with some elements left out
RECURSIVE IsSubSeq(_, _)
IsSubSeq(l, s) ==
    IF l = << >> THEN TRUE
    ELSE IF s = << >> THEN FALSE
    ELSE IF Head(l) = Head(s) THEN IsSubSeq(Tail(l), Tail(s))
    ELSE IsSubSeq(l, Tail(s))

\* position of the first declaration of category c
FirstDeclared(c) ==
    CHOOSE k \in DOMAIN raw_categories :
        raw_categories[k] = c /\ \A j \in 1 .. (k - 1) : raw_categories[j] # c

\* C8 amended: every returned record that has a name, a homepage and a
\* description of the minimum length is in exactly one list, the one of its
\* category and visibility; a record that lacks one of them is in no list;
\* every list keeps the order of the returned list, and the buckets are the
\* declared categories in the order of their declaration, "others" last
\* when it is not declared.
C8_CompleteRecordsBucketed ==
    pc = "done" =>
        /\ \A k \in DOMAIN projects_processed :
             LET r == projects_processed[k]
             IN  IF Listed_RequiredMissing(r) THEN Occurrences(r) = 0
                 ELSE Occurrences(r) = 1 /\ InList(r, r["category"], ListOf(r))
        /\ \A cl \in AllLists : IsSubSeq(buckets[cl[1]][cl[2]], projects_processed)
        /\ DOMAIN buckets = {categories[k] : k \in DOMAIN categories}
        /\ \A j, k \in DOMAIN categories :
             /\ j # k => categories[j] # categories[k]
             /\ j < k /\ InSeq(categories[k], raw_categories) =>
                  /\ InSeq(categories[j], raw_categories)
                  /\ FirstDeclared(categories[j]) < FirstDeclared(categories[k])
        /\ \A k \in DOMAIN raw_categories : InSeq(raw_categories[k], categories)
        /\ InSeq(DEFAULT_OTHERS_CATEGORY_ID, categories)

\* C8 witness: a visible, a hidden and an ignored record in one run, two of
\* them in the buckets
C8_Witness ==
    /\ pc = "done"
    /\ Len(projects_processed) = 3
    /\ \E k \in DOMAIN projects_processed : Listed_RequiredMissing(projects_processed[k])
    /\ \E c \in DOMAIN buckets : Len(buckets[c]["projects"]) = 1
    /\ \E c \in DOMAIN buckets : Len(buckets[c]["hidden_projects"]) = 1
    /\ raw_categories # DeclaredCategories

----------------------------------------------------------------------------
(* Properties of sort_projects and calc_sourcerank_placing *)

\* a metric of a record, a missing value counting as 0
ValueOr0(p, f) == IF Has(p, f) THEN p[f] ELSE 0

\* the tuple the records are ordered by
OrderTuple(p) ==
    IF Has(configuration, "sort_by") /\ configuration["sort_by"] = "star_count"
    THEN <<ValueOr0(p, "star_count"), ValueOr0(p, "sourcerank")>>
    ELSE <<ValueOr0(p, "sourcerank"), ValueOr0(p, "star_count")>>

\* the place of the record named n in list ps
PlaceOf(n, ps) == CHOOSE k \in DOMAIN ps : ps[k]["name"] = n

\* the step of sort_projects
SortStep == pc = "loop" /\ pc' = "placing"

SortedStablePermutation ==
    LET before == projects_processed
        after == projects_processed'
    IN  /\ Len(after) = Len(before)
        /\ \A k \in DOMAIN before : \E j \in DOMAIN after : after[j] = before[k]
        /\ \A j, k \in DOMAIN after :
             j < k =>
                /\ ~KeyLess(OrderTuple(after[j]), OrderTuple(after[k]))
                /\ OrderTuple(after[j]) = OrderTuple(after[k]) =>
                     PlaceOf(after[j]["name"], before) < PlaceOf(after[k]["name"], before)

\* C9: sort_projects puts the records in non-increasing order of (sourcerank,
\* star_count), or of (star_count, sourcerank) when sort_by is "star_count",
\* a missing value counting as 0; records of equal tuples keep their order,
\* and the result is a permutation of the input.
C9_SortedStablePermutation == [][SortStep => SortedStablePermutation]_vars

\* the place of the catalog entry named n
CatalogPlace(n) == CHOOSE k \in DOMAIN projects : projects[k]["name"] = n

\* C9 witness: sort_projects has moved a record forward and has kept two
\* records of equal tuples in their catalog order
C9_Witness ==
    /\ pc = "placing"
    /\ Len(projects_processed) >= 3
    /\ \E j, k \in DOMAIN projects_processed :
         /\ j < k
         /\ CatalogPlace(projects_processed[j]["name"]) > CatalogPlace(projects_processed[k]["name"])
    /\ \E j, k \in DOMAIN projects_processed :
         /\ j < k
         /\ OrderTuple(projects_processed[j]) = OrderTuple(projects_processed[k])
         /\ CatalogPlace(projects_processed[j]["name"]) < CatalogPlace(projects_processed[k]["name"])

\* the rank values of the records of category cat that have a rank
PresentRanks(ps, cat) ==
    LET idx == {k \in DOMAIN ps : Has(ps[k], "sourcerank") /\ ps[k]["category"] = cat}
    IN  [k \in idx |-> ps[k]["sourcerank"]]

\* the tier of a record among the rank values f of its category
TierAmong(p, f) ==
    IF 100 * p["sourcerank"] >= Percentile100(f, 90) THEN 1
    ELSE IF 100 * p["sourcerank"] >= Percentile100(f, 60) THEN 2
    ELSE 3

\* the catalog holds the ranks 10, 20, ..., 100 in one category
IsDecade ==
    /\ Len(projects) = 10
    /\ {projects[k]["sourcerank"] : k \in DOMAIN projects} = {10 * k : k \in 1 .. 10}

DecadeThresholds ==
    IsDecade =>
        LET f == PresentRanks(projects_processed, "tools")
        IN  /\ 9000 < Percentile100(f, 90) /\ Percentile100(f, 90) < 10000
            /\ 6000 < Percentile100(f, 60) /\ Percentile100(f, 60) < 7000
            /\ Cardinality({k \in DOMAIN projects_processed :
                              Has(projects_processed[k], "sourcerank_placing")
                              /\ projects_processed[k]["sourcerank_placing"] = 1}) = 1

\* C10 as stated: every record that has a rank gets the tier of its rank
\* among the rank values of its category, tier 1 from the 90th percentile on,
\* tier 2 from the 60th on, tier 3 below; for the ranks 10, ..., 100 the
\* thresholds lie within (90, 100) and (60, 70) and one record gets tier 1.
C10_TierByCategoryPercentile ==
    Returned =>
        /\ \A k \in DOMAIN projects_processed :
             LET p == projects_processed[k]
             IN  Has(p, "sourcerank") =>
                    /\ Has(p, "sourcerank_placing")
                    /\ p["sourcerank_placing"]
                         = TierAmong(p, PresentRanks(projects_processed, p["category"]))
        /\ DecadeThresholds

\* what the code does: the claim holds of the records whose rank is not 0,
\* among the rank values other than 0; a record of rank 0 or without rank
\* gets no tier
TierAmongNonZero ==
    Returned =>
        /\ \A k \in DOMAIN projects_processed :
             LET p == projects_processed[k]
                 f == PresentRanks(projects_processed, p["category"])
                 nz == [j \in {j \in DOMAIN f : f[j] # 0} |-> f[j]]
             IN  IF ValueOr0(p, "sourcerank") = 0 THEN ~Has(p, "sourcerank_placing")
                 ELSE /\ Has(p, "sourcerank_placing")
                      /\ p["sourcerank_placing"] = TierAmong(p, nz)
        /\ DecadeThresholds

\* the decade is reached, with the tiers 1, 2 and 3 all given
DecadeReached ==
    /\ Returned /\ IsDecade
    /\ {projects_processed[k]["sourcerank_placing"] : k \in DOMAIN projects_processed} = {1, 2, 3}

----------------------------------------------------------------------------
(* Further properties of calc_sourcerank_placing *)

\* the records of ps in category cat, in their order
InCategory(ps, cat) == SelectSeq(ps, LAMBDA r : r["category"] = cat)

\* the tier record p gets when calc_sourcerank_placing is given the records
\* of p's category alone
TierWithinCategory(p) ==
    LET qs == calc_sourcerank_placing(InCategory(projects_processed, p["category"]))
        k == CHOOSE k \in DOMAIN qs : qs[k]["name"] = p["name"]
    IN  qs[k]["sourcerank_placing"]

----------------------------------------------------------------------------
(* Further properties of apply_filters *)

\* whole months from the record's updated_at to the run's clock
MonthsSinceUpdate == diff_month(world.now, project_info["updated_at"])

\* C12 as stated: a project whose updated_at is present and lies more than
\* project_dead_months months in the past leaves apply_filters with show
\* false, whatever else it holds.
C12_DeadHidden ==
    Filtered =>
        (Has(project_info, "updated_at")
         /\ MonthsSinceUpdate > configuration["project_dead_months"]
            => project_info["show"] = FALSE)

\* C12 amended: the same for every window other than 0; a window of 0
\* months switches the test off, and no project is hidden for its age.
C12_DeadHiddenUnlessDisabled ==
    Filtered =>
        /\ (Has(project_info, "updated_at")
            /\ configuration["project_dead_months"] # 0
            /\ MonthsSinceUpdate > configuration["project_dead_months"]
               => project_info["show"] = FALSE)
        /\ (configuration["project_dead_months"] = 0
            /\ ~Listed_RequiredMissing(project_info)
            /\ ~Listed_RankBelow(project_info, configuration)
            /\ ~Listed_StarsBelow(project_info, configuration)
            /\ ~Listed_NoLicense(project_info, configuration)
            /\ ~Listed_PlatformMissing(project_info, configuration)
            /\ ~Listed_LicenseNotAllowed(project_info, configuration)
               => project_info["show"] = TRUE)

\* C12 witness: 13 months with the default window of 12: hidden, with a
\* license and nothing else against the project
C12_Witness ==
    /\ Filtered
    /\ Has(project_info, "updated_at") /\ MonthsSinceUpdate = 13
    /\ configuration["project_dead_months"] = 12
    /\ ~Listed_RequiredMissing(project_info)
    /\ TruthyS(project_info, "license")
    /\ project_info["show"] = FALSE

\* the window of 0 months is reached with an old project left visible
DisabledWindowReached ==
    /\ Filtered
    /\ configuration["project_dead_months"] = 0
    /\ Has(project_info, "updated_at") /\ MonthsSinceUpdate > 1
    /\ project_info["show"] = TRUE

\* the project of the scenario: complete, rank 8, popularity 150, under the
\* default configuration
InScenario(p) ==
    /\ raw_config = EmptyDict
    /\ ~Listed_RequiredMissing(p)
    /\ Has(p, "sourcerank") /\ p["sourcerank"] = 8
    /\ Has(p, "star_count") /\ p["star_count"] = 150

\* C13: under the default configuration the project of the scenario is
\* returned with show false when it has no license; with the license "MIT"
\* it is returned with show true and is in the visible list of the bucket of
\* its declared category.
C13_ScenarioLicense ==
    pc = "done" =>
        \A k \in DOMAIN projects_processed :
            LET p == projects_processed[k]
            IN  InScenario(p) =>
                  /\ ~Has(p, "license") =>
                        /\ p["show"] = FALSE
                        /\ ~InList(p, projects[CatalogPlace(p["name"])]["category"], "projects")
                  /\ (Has(p, "license") /\ p["license"] = "MIT") =>
                        /\ p["show"] = TRUE
                        /\ InList(p, projects[CatalogPlace(p["name"])]["category"], "projects")

\* C13 witness: the scenario with the license, rank and popularity fetched,
\* ends in the visible list of "tools"
C13_Witness ==
    /\ pc = "done"
    /\ Len(projects_processed) = 1
    /\ InScenario(projects_processed[1])
    /\ ~Has(projects[1], "sourcerank")
    /\ Has(projects_processed[1], "license")
    /\ projects_processed[1]["license"] = "MIT"
    /\ buckets["tools"]["projects"] = <<projects_processed[1]>>

\* the scenario without license ends hidden
ScenarioHiddenReached ==
    /\ pc = "done"
    /\ Len(projects_processed) = 1
    /\ InScenario(projects_processed[1])
    /\ ~Has(projects_processed[1], "license")
    /\ buckets["tools"]["hidden_projects"] = <<projects_processed[1]>>

\* the SPDX ids of the table entries that license l names, by name, SPDX id
\* or keyword, compared in simplified form
KnownAs(l) ==
    {licenses[k].spdx_id : k \in {j \in DOMAIN licenses :
        \/ simplify_str(l) = simplify_str(licenses[j].name)
        \/ simplify_str(l) = simplify_str(licenses[j].spdx_id)
        \/ \E n \in DOMAIN licenses[j].keywords :
              simplify_str(l) = simplify_str(licenses[j].keywords[n])}}

\* license l normalized through the table
Normalized(l) ==
    IF KnownAs(l) # {} THEN simplify_str(CHOOSE x \in KnownAs(l) : TRUE)
    ELSE simplify_str(l)

\* the project's license is outside the normalized allow-list
OutsideAllowList ==
    Normalized(project_info["license"])
        \notin {Normalized(configuration["allowed_licenses"][k]) :
                   k \in DOMAIN configuration["allowed_licenses"]}

\* none of the conditions other than the allow-list is against the project
OnlyAllowListDecides ==
    /\ ~Listed_RequiredMissing(project_info)
    /\ ~Listed_RankBelow(project_info, configuration)
    /\ ~Listed_StarsBelow(project_info, configuration)
    /\ ~Listed_PlatformMissing(project_info, configuration)
    /\ ~Listed_Dead(project_info, configuration, world.now)

OutsideHiddenReached ==
    /\ Filtered
    /\ TruthyS(project_info, "license") /\ project_info["license"] = "Proprietary"
    /\ configuration["allowed_licenses"] = <<"mit">>
    /\ OnlyAllowListDecides
    /\ project_info["show"] = FALSE

EmptyAllowListReached ==
    /\ Filtered
    /\ TruthyS(project_info, "license")
    /\ configuration["allowed_licenses"] = << >>
    /\ project_info["show"] = TRUE

----------------------------------------------------------------------------
(* Algebraic properties of the merges *)

\* C15: merging the same source result a second time changes nothing: in
\* the state an adapter leaves, the adapter applied again to the record with
\* the same answer gives the record back.
C15_MergeIdempotent ==
    /\ pc = "libio_repo" =>
         update_via_github_api(project_info, world.token, world.github_api) = project_info
    /\ pc = "pypi" => update_repo_via_libio(project_info, world.libio_repo) = project_info
    /\ pc = "conda" =>
         update_via_pypi(project_info, world.pypi, world.pypistats) = project_info
    /\ pc = "npm" => update_via_conda(project_info, world.conda) = project_info
    /\ pc = "dockerhub" => update_via_npm(project_info, world.npm) = project_info
    /\ pc = "enriched" => update_via_dockerhub(project_info, world.dockerhub) = project_info

\* C15 witness: the libraries.io repository answer has just put a rank and a
\* popularity on a record whose catalog entry had none
C15_Witness ==
    /\ pc = "pypi"
    /\ ~Has(Entry, "sourcerank") /\ ~Has(Entry, "star_count")
    /\ TruthyN(project_info, "sourcerank") /\ TruthyN(project_info, "star_count")
    /\ TruthyN(world.libio_repo, "rank")
    /\ project_info["sourcerank"] = world.libio_repo["rank"]

\* the other sources have merged as well: a package's license and date, the
\* Docker Hub date, the API's description
OtherMergesReached ==
    \/ pc = "conda" /\ TruthyS(project_info, "license") /\ ~TruthyS(Entry, "license")
                    /\ world.pypi # EmptyDict
    \/ pc = "enriched" /\ Has(world.dockerhub, "last_updated")
                       /\ TruthyD(project_info, "updated_at") /\ ~Has(Entry, "updated_at")

----------------------------------------------------------------------------
(* Failed lookups *)

\* the fields a failed lookup is to leave alone
KeptFields == Metrics \cup {"created_at", "updated_at", "license", "description", "homepage"}

\* the record is the same before and after the step in field f
SameField(f) ==
    /\ Has(project_info', f) <=> Has(project_info, f)
    /\ Has(project_info, f) => project_info'[f] = project_info[f]

\* the GitHub API answered with status 200 and no repository
NoRepository(a) == Has(a, "status") /\ a["status"] = 200 /\ ~Has(a, "url")

\* the lookup of the adapter that runs at pc fails
LookupFails ==
    \/ pc = "github_api" /\ (~Has(world.github_api, "status") \/ world.github_api["status"] # 200
                             \/ NoRepository(world.github_api))
    \/ pc = "libio_repo" /\ world.libio_repo = EmptyDict
    \/ pc = "pypi" /\ world.pypi = EmptyDict
    \/ pc = "conda" /\ world.conda = EmptyDict
    \/ pc = "npm" /\ world.npm = EmptyDict
    \/ pc = "dockerhub" /\ (~Has(world.dockerhub, "status") \/ world.dockerhub["status"] # 200)

\* the adapter at pc returns and the next one is up
AdapterReturns ==
    \/ pc = "github_api" /\ pc' = "libio_repo"
    \/ pc = "libio_repo" /\ pc' = "pypi"
    \/ pc = "pypi" /\ pc' = "conda"
    \/ pc = "conda" /\ pc' = "npm"
    \/ pc = "npm" /\ pc' = "dockerhub"
    \/ pc = "dockerhub" /\ pc' = "enriched"

FailureLeavesFields == LookupFails => AdapterReturns /\ \A f \in KeptFields : SameField(f)

HomepageFromGithubUrl ==
    IF TruthyS(project_info, "homepage") THEN SameField("homepage")
    ELSE /\ Has(project_info', "homepage")
         /\ IF Has(project_info, "github_url")
            THEN project_info'["homepage"] = project_info["github_url"]
            ELSE ~TruthyS(project_info', "homepage")

FailureLeavesFieldsButHomepage ==
    LookupFails =>
        /\ AdapterReturns
        /\ IF pc = "github_api" /\ NoRepository(world.github_api)
           THEN HomepageFromGithubUrl /\ \A f \in KeptFields \ {"homepage"} : SameField(f)
           ELSE \A f \in KeptFields : SameField(f)

NoRepositoryReached ==
    /\ pc = "libio_repo"
    /\ NoRepository(world.github_api)
    /\ ~TruthyS(Entry, "homepage") /\ TruthyS(Entry, "github_url")
    /\ project_info["homepage"] = Entry["github_url"]

----------------------------------------------------------------------------
(* Categories of the returned records *)

\* the catalog entry of returned record p: the first of its name
EntryOf(p) ==
    projects[CHOOSE k \in DOMAIN projects :
                FirstOfName(k) /\ Lower(projects[k]["name"]) = Lower(p["name"])]

\* C17: every returned record has a category that is a key of the
\* categories map: the declared category of its entry, or "others" when the
\* entry has none or an undeclared one; the map always holds "others", as
\* its last key when the configuration does not declare it.
C17_CategoryIsDeclaredOrOthers ==
    /\ InSeq(DEFAULT_OTHERS_CATEGORY_ID, categories)
    /\ ~InSeq(DEFAULT_OTHERS_CATEGORY_ID, raw_categories) =>
          /\ categories[Len(categories)] = DEFAULT_OTHERS_CATEGORY_ID
          /\ \A k \in DOMAIN raw_categories : InSeq(raw_categories[k], categories)
    /\ Returned =>
         \A k \in DOMAIN projects_processed :
            LET p == projects_processed[k]
                e == EntryOf(p)
            IN  /\ Has(p, "category") /\ InSeq(p["category"], categories)
                /\ p["category"] =
                     IF Has(e, "category") /\ InSeq(e["category"], raw_categories)
                     THEN e["category"] ELSE DEFAULT_OTHERS_CATEGORY_ID

\* C17 witness: an entry without category and an entry of an undeclared
\* category are both returned in "others", next to one that kept its own,
\* and "others" was appended to the declared categories
C17_Witness ==
    /\ Returned
    /\ ~InSeq(DEFAULT_OTHERS_CATEGORY_ID, raw_categories)
    /\ \E j, k, n \in DOMAIN projects_processed :
         /\ ~Has(EntryOf(projects_processed[j]), "category")
         /\ projects_processed[j]["category"] = DEFAULT_OTHERS_CATEGORY_ID
         /\ Has(EntryOf(projects_processed[k]), "category")
         /\ EntryOf(projects_processed[k])["category"] = "zzz"
         /\ projects_processed[k]["category"] = DEFAULT_OTHERS_CATEGORY_ID
         /\ projects_processed[n]["category"] = "tools"

----------------------------------------------------------------------------
(* Properties of prepare_configuration *)

\* the documented defaults
DocumentedDefaults ==
    [project_inactive_months |-> 6, project_dead_months |-> 12, project_new_months |-> 6,
     min_sourcerank |-> 5, min_stars |-> 100, require_license |-> TRUE,
     require_pypi |-> FALSE, require_github |-> FALSE, require_npm |-> FALSE,
     require_conda |-> FALSE, sort_by |-> "sourcerank",
     allowed_licenses |-> <<"MIT", "Apache-2.0", "ISC", "BSD-3-Clause", "GPL-3.0", "GPL-2.0",
                            "MPL-2.0", "BSD-2-Clause", "LGPL-3.0", "AGPL-3.0", "Unlicense">>]

\* C18: the configuration of the run holds the value of every key the user
\* supplied and the documented default of every key the user left out, and
\* prepare_configuration applied to it gives it back.
C18_ConfigurationDefaults ==
    /\ \A key \in DOMAIN raw_config :
          Has(configuration, key) /\ configuration[key] = raw_config[key]
    /\ \A key \in DOMAIN DocumentedDefaults \ DOMAIN raw_config :
          Has(configuration, key) /\ configuration[key] = DocumentedDefaults[key]
    /\ prepare_configuration(configuration) = configuration

\* C18 witness: the user set min_stars to 0 and an allow-list, and left
\* min_sourcerank and require_license out; apply_filters has used the result
C18_Witness ==
    /\ Filtered
    /\ Has(raw_config, "min_stars") /\ raw_config["min_stars"] = 0
    /\ configuration["min_stars"] = 0
    /\ Has(raw_config, "allowed_licenses") /\ ~Has(raw_config, "require_license")
    /\ configuration["allowed_licenses"] = raw_config["allowed_licenses"]
    /\ configuration["require_license"] = TRUE
    /\ ~Has(raw_config, "min_sourcerank") /\ configuration["min_sourcerank"] = 5

----------------------------------------------------------------------------
(* The returned record against the catalog entry *)

\* record p holds a rank or a popularity below the configured minimum
BelowAMinimum(p) ==
    \/ Has(p, "star_count") /\ p["star_count"] < configuration["min_stars"]
    \/ Has(p, "sourcerank") /\ p["sourcerank"] < configuration["min_sourcerank"]

\* C19 as stated: a returned record that holds a popularity below min_stars
\* or a rank below min_sourcerank has show false.
C19_ShowMatchesReturnedMetrics ==
    Returned =>
        \A k \in DOMAIN projects_processed :
            BelowAMinimum(projects_processed[k]) => projects_processed[k]["show"] = FALSE

\* what the code does: show is decided on the merged values, so the
\* statement holds of the records whose catalog entry states neither
\* metric nor show, for values other than 0
ShowMatchesFetchedMetrics ==
    Returned =>
        \A k \in DOMAIN projects_processed :
            LET p == projects_processed[k]
            IN  /\ DOMAIN EntryOf(p) \cap {"star_count", "sourcerank", "show"} = {}
                /\ ValueOr0(p, "star_count") # 0 /\ ValueOr0(p, "sourcerank") # 0
                /\ BelowAMinimum(p)
                => p["show"] = FALSE

\* a record is returned visible with the catalog's popularity of 99, below
\* the minimum of 100, after libraries.io had reported 150
StaleShowReached ==
    /\ Returned
    /\ Len(projects_processed) = 1
    /\ Has(projects[1], "star_count") /\ projects[1]["star_count"] = 99
    /\ Has(world.libio_repo, "stargazers_count")
    /\ world.libio_repo["stargazers_count"] = 150
    /\ projects_processed[1]["star_count"] = 99
    /\ projects_processed[1]["sourcerank"] = 8
    /\ projects_processed[1]["show"] = TRUE

CatalogShowReached ==
    /\ Returned
    /\ Len(projects_processed) = 1
    /\ Has(projects[1], "show") /\ projects[1]["show"] = TRUE
    /\ Listed_RequiredMissing(projects_processed[1])
    /\ projects_processed[1]["show"] = TRUE

----------------------------------------------------------------------------
(* Order of the adapters *)

AdapterPositions == {"github_api", "libio_repo", "pypi", "conda", "npm", "dockerhub"}

\* the answer the adapter at pc merges
AnswerHere ==
    CASE pc = "github_api" -> world.github_api
      [] pc = "libio_repo" -> world.libio_repo
      [] pc = "pypi" -> world.pypi
      [] pc = "conda" -> world.conda
      [] pc = "npm" -> world.npm
      [] pc = "dockerhub" -> world.dockerhub

\* the values the step at pc can supply for a keep-current-if-present field:
\* what its source reports, and for the homepage of the two source-host
\* adapters the repository url the record has after the step
SuppliedHere(f) ==
    LET a == AnswerHere
    IN  IF f = "license"
        THEN CASE pc = "github_api" -> Values({a}, "licenseInfo_spdxId")
               [] pc = "libio_repo" -> Values({a}, "license")
               [] pc \in {"pypi", "conda", "npm"} ->
                    IF Has(a, "normalized_licenses") /\ Len(a["normalized_licenses"]) > 0
                    THEN {a["normalized_licenses"][1]} ELSE {}
               [] OTHER -> {}
        ELSE CASE pc \in {"github_api", "libio_repo"} -> Values({project_info'}, "github_url")
               [] pc \in {"pypi", "conda", "npm"} ->
                    Values({a}, "homepage") \cup Values({a}, "repository_url")
                    \cup Values({a}, "package_manager_url")
               [] OTHER -> {}

KeepCurrentFields == {"homepage", "license"}

AdaptersInOrder ==
    /\ pc = "loop" /\ pc' \notin {"loop", "aborted", "placing"} => pc' = "github_api"
    /\ pc \in AdapterPositions =>
          /\ AdapterReturns
          /\ \A f \in KeepCurrentFields :
                IF TruthyS(project_info, f) THEN SameField(f)
                ELSE TruthyS(project_info', f) => project_info'[f] \in SuppliedHere(f)

LaterHomepageReached ==
    /\ pc = "enriched"
    /\ ~TruthyS(Entry, "homepage")
    /\ ~TruthyS(Entry, "github_id")
    /\ TruthyS(world.pypi, "homepage")
    /\ project_info["homepage"] = world.pypi["homepage"]

----------------------------------------------------------------------------
(* Platform urls *)

\* identifier, url and canonical prefix of each platform, and the position
\* of the run at which the platform's adapter has returned
PlatformTable ==
    {<<"github_id", "github_url", "https://github.com/", "pypi">>,
     <<"pypi_id", "pypi_url", "https://pypi.org/project/", "conda">>,
     <<"conda_id", "conda_url", "https://anaconda.org/anaconda/", "npm">>,
     <<"npm_id", "npm_url", "https://www.npmjs.com/package/", "dockerhub">>,
     <<"dockerhub_id", "dockerhub_url", "https://hub.docker.com/r/", "enriched">>}

\* the record has the platform's url: the catalog's when it stated one, else
\* the canonical url of the identifier
HasPlatformUrl(t) ==
    /\ TruthyS(project_info, t[2])
    /\ IF TruthyS(Entry, t[2]) THEN project_info[t[2]] = Entry[t[2]]
       ELSE project_info[t[2]] = t[3] \o project_info[t[1]]

\* C22: once the adapter of a platform has run, a record that carries the
\* platform's identifier has the platform's url, whatever the lookup gave.
C22_PlatformUrlAfterAdapter ==
    \A t \in PlatformTable :
        pc = t[4] /\ TruthyS(project_info, t[1]) => HasPlatformUrl(t)

\* the lookup of the platform's adapter found the project
Found(t) ==
    CASE t[1] = "github_id" -> HasSlash(project_info["github_id"]) /\ world.libio_repo # EmptyDict
      [] t[1] = "pypi_id" -> world.pypi # EmptyDict
      [] t[1] = "conda_id" -> world.conda # EmptyDict
      [] t[1] = "npm_id" -> world.npm # EmptyDict
      [] t[1] = "dockerhub_id" -> TRUE

\* what holds instead: the url is there when the lookup found the project,
\* and for Docker Hub in every case
PlatformUrlWhenFound ==
    \A t \in PlatformTable :
        pc = t[4] /\ TruthyS(project_info, t[1]) /\ Found(t) => HasPlatformUrl(t)

\* the package index does not know the package, and the record leaves the
\* PyPI adapter with its pypi_id and without pypi_url
UrlMissingReached ==
    /\ pc = "conda"
    /\ TruthyS(project_info, "pypi_id")
    /\ world.pypi = EmptyDict
    /\ ~Has(project_info, "pypi_url")

\* Docker Hub answered 404 and the record has the canonical dockerhub_url
DockerhubUrlReached ==
    /\ pc = "enriched"
    /\ TruthyS(project_info, "dockerhub_id")
    /\ Has(world.dockerhub, "status") /\ world.dockerhub["status"] = 404
    /\ ~Has(Entry, "dockerhub_url")
    /\ project_info["dockerhub_url"] = "https://hub.docker.com/r/o/foo"

----------------------------------------------------------------------------
(* Licenses that stand for "none found" *)

NoLicenseWords == {"other", "noassertion"}

\* the record's license is one of the words, and not from the catalog entry
TookNoLicenseWord ==
    /\ TruthyS(project_info, "license")
    /\ Lower(project_info["license"]) \in NoLicenseWords
    /\ ~(Has(Entry, "license") /\ Entry["license"] = project_info["license"])

\* C23: "other" and "noassertion", in any letter case, from any source never
\* become the license of the record.
C23_NoLicenseWordNeverTaken == pc \in AfterAdapter => ~TookNoLicenseWord

\* the word each source-host adapter and the package merge refuse themselves
RefusedHere ==
    CASE pc = "github_api" -> {"noassertion"}
      [] pc \in {"libio_repo", "pypi", "conda", "npm"} -> {"other"}
      [] OTHER -> NoLicenseWords

OwnWordRefused ==
    pc \in AdapterPositions /\ ~TruthyS(project_info, "license")
        => ~(TruthyS(project_info', "license")
             /\ Lower(project_info'["license"]) \in RefusedHere)

\* what holds instead: the GitHub API adapter never takes "noassertion", the
\* libraries.io merges never take "other"
EachSourceRefusesItsWord == [][OwnWordRefused]_vars

\* the GitHub API reported "Other" and it is the license of the record
OtherTakenReached ==
    /\ pc = "libio_repo"
    /\ ~TruthyS(Entry, "license")
    /\ Has(world.github_api, "licenseInfo_spdxId")
    /\ Lower(world.github_api["licenseInfo_spdxId"]) = "other"
    /\ project_info["license"] = world.github_api["licenseInfo_spdxId"]

\* libraries.io reported "NOASSERTION" for the repository, or a package
\* "NoAssertion", and it is the license of the record
NoAssertionTakenReached ==
    /\ pc \in {"pypi", "conda"}
    /\ ~TruthyS(Entry, "license")
    /\ TruthyS(project_info, "license")
    /\ Lower(project_info["license"]) = "noassertion"

----------------------------------------------------------------------------
(* Activity status of the rendered records *)

Rendered == pc = "rendered"

\* C24: under a window of dead months other than 0, a returned record the
\* renderer tags dead has show false.
C24_DeadNeverVisible ==
    Rendered /\ configuration["project_dead_months"] # 0 =>
        \A k \in DOMAIN projects_processed :
            status_md[k] = "dead" => projects_processed[k]["show"] = FALSE

\* what holds instead: the same for the records whose catalog entry states
\* neither show nor updated_at
DeadNeverVisibleUnlessStated ==
    Rendered /\ configuration["project_dead_months"] # 0 =>
        \A k \in DOMAIN projects_processed :
            LET e == EntryOf(projects_processed[k])
            IN  status_md[k] = "dead" /\ ~Has(e, "show") /\ ~Has(e, "updated_at")
                    => projects_processed[k]["show"] = FALSE

\* a record is tagged dead and visible: its catalog entry states an old
\* updated_at and no show, libraries.io reported a later push
DeadVisibleReached ==
    /\ Rendered
    /\ Len(projects_processed) = 1
    /\ configuration["project_dead_months"] # 0
    /\ ~Has(projects[1], "show") /\ Has(projects[1], "updated_at")
    /\ world.libio_repo # EmptyDict
    /\ parse(world.libio_repo["pushed_at"]) > projects[1]["updated_at"]
    /\ status_md[1] = "dead"
    /\ projects_processed[1]["show"] = TRUE

\* the tag dead on a hidden record whose dates libraries.io reported
DeadHiddenReached ==
    /\ Rendered
    /\ Len(projects_processed) = 1
    /\ ~Has(projects[1], "show") /\ ~Has(projects[1], "updated_at")
    /\ world.libio_repo # EmptyDict
    /\ status_md[1] = "dead"
    /\ projects_processed[1]["show"] = FALSE

\* months since the record was created / last updated, by the run's clock
AgeOf(p) == diff_month(world.now, p["created_at"])
InactivityOf(p) == diff_month(world.now, p["updated_at"])

WithinNew(p) ==
    Has(p, "created_at") /\ AgeOf(p) <= configuration["project_new_months"]
OverInactive(p) ==
    Has(p, "updated_at") /\ InactivityOf(p) > configuration["project_inactive_months"]
OverDead(p) ==
    Has(p, "updated_at") /\ InactivityOf(p) > configuration["project_dead_months"]

ActivityTags == {"new", "inactive", "dead"}

\* C25: the status is "new" when the age is at most project_new_months,
\* otherwise "inactive" when the inactivity exceeds project_inactive_months,
\* otherwise "dead" when it exceeds project_dead_months.
C25_StatusNewInactiveDead ==
    Rendered =>
        \A k \in DOMAIN projects_processed :
            LET p == projects_processed[k]
            IN  IF WithinNew(p) THEN status_md[k] = "new"
                ELSE IF OverInactive(p) THEN status_md[k] = "inactive"
                ELSE IF OverDead(p) THEN status_md[k] = "dead"
                ELSE status_md[k] \notin ActivityTags

\* what holds instead: a tag is given only under its own condition, dead
\* goes before inactive and inactive before new, and a project created in
\* the month of the run is not tagged new
StatusDeadInactiveNew ==
    Rendered =>
        \A k \in DOMAIN projects_processed :
            LET p == projects_processed[k]
                dead == OverDead(p) /\ configuration["project_dead_months"] # 0
                inactive == OverInactive(p) /\ InactivityOf(p) # 0
                new == WithinNew(p) /\ AgeOf(p) # 0
            IN  IF dead THEN status_md[k] = "dead"
                ELSE IF inactive THEN status_md[k] = "inactive"
                ELSE IF new THEN status_md[k] = "new"
                ELSE status_md[k] \notin ActivityTags

\* a project created in the month of the run, under a window of six months
\* for new projects, is rendered without a tag
BornThisMonthReached ==
    /\ Rendered
    /\ Len(projects_processed) = 1
    /\ Has(projects_processed[1], "created_at") /\ AgeOf(projects_processed[1]) = 0
    /\ configuration["project_new_months"] = 6
    /\ status_md[1] = ""

\* a project more than twelve months without update is tagged dead, where
\* the stated order has it inactive
DeadBeforeInactiveReached ==
    /\ Rendered
    /\ Len(projects_processed) = 1
    /\ OverInactive(projects_processed[1]) /\ OverDead(projects_processed[1])
    /\ ~WithinNew(projects_processed[1])
    /\ configuration["project_dead_months"] = 12
    /\ status_md[1] = "dead"

\* a project within the window for new projects and over the window for
\* inactive ones is tagged inactive
InactiveBeforeNewReached ==
    /\ Rendered
    /\ Len(projects_processed) = 1
    /\ WithinNew(projects_processed[1]) /\ OverInactive(projects_processed[1])
    /\ status_md[1] = "inactive"

\* the tag new is given as stated
NewReached ==
    /\ Rendered
    /\ Len(projects_processed) = 1
    /\ WithinNew(projects_processed[1]) /\ ~OverInactive(projects_processed[1])
    /\ status_md[1] = "new"

----------------------------------------------------------------------------
(* Metrics of 0 *)

\* the answer of the libraries.io package adapter at pc, when it merges one
PackageAnswerHere(idf) ==
    IF TruthyS(project_info, idf) /\ AnswerHere # EmptyDict THEN {AnswerHere} ELSE {}

\* what the adapter at pc has to merge into metric m: the number its source
\* reports, when the adapter looks the project up and the lookup succeeds
ReportedHere(m) ==
    LET packages == CASE pc = "pypi" -> PackageAnswerHere("pypi_id")
                      [] pc = "conda" -> PackageAnswerHere("conda_id")
                      [] pc = "npm" -> PackageAnswerHere("npm_id")
                      [] OTHER -> {}
        api == IF pc = "github_api" THEN ApiAnswers ELSE {}
        repo == IF pc = "libio_repo" THEN RepoAnswers ELSE {}
    IN  CASE m = "star_count" ->
                Values(api, "stargazers_totalCount") \cup Values(repo, "stargazers_count")
                \cup Values(packages, "stars")
          [] m = "fork_count" ->
                Values(api, "forks_totalCount") \cup Values(repo, "forks_count")
                \cup Values(packages, "forks")
          [] m = "contributor_count" -> Values(repo, "contributions_count")
          [] m = "open_issue_count" ->
                Values(api, "issues_totalCount") \cup Values(repo, "open_issues_count")
          [] m = "sourcerank" -> Values(repo, "rank") \cup Values(packages, "rank")

\* a record without the metric holds the reported 0 after the merge
ZeroFillsAbsent ==
    pc \in AdapterPositions =>
        \A m \in Metrics :
            0 \in ReportedHere(m) /\ ~Has(project_info, m)
                => Has(project_info', m) /\ project_info'[m] = 0

\* a 0 on the record is merged like any other number: the larger one stays
ZeroOnRecordIsAValue ==
    pc \in AdapterPositions =>
        \A m \in Metrics :
            Has(project_info, m) /\ project_info[m] = 0 /\ ReportedHere(m) # {}
                => Has(project_info', m)
                   /\ project_info'[m] = Max(ReportedHere(m) \cup {0})

\* C26: a merge tells a missing metric from a metric of 0: a reported 0
\* fills a missing metric, and a 0 on the record counts as a value.
C26_ZeroIsNotAbsence == [][ZeroFillsAbsent /\ ZeroOnRecordIsAValue]_vars

\* what holds of the two: the 0 on the record behaves as a value under the
\* rule of the larger number
ZeroOnRecordMerged == [][ZeroOnRecordIsAValue]_vars

\* libraries.io reported 0 stars for the repository of an entry that states
\* none, and the record leaves the adapter without star_count
ZeroDroppedReached ==
    /\ pc = "pypi"
    /\ ~Has(Entry, "star_count")
    /\ RepoAnswers # {}
    /\ Has(world.libio_repo, "stargazers_count") /\ world.libio_repo["stargazers_count"] = 0
    /\ ~(Has(world.github_api, "stargazers_totalCount") /\ ApiAnswers # {})
    /\ ~Has(project_info, "star_count")

\* the catalog stated 0 and a source reported more: the record holds the more
ZeroRaisedReached ==
    /\ pc = "pypi"
    /\ Has(Entry, "star_count") /\ Entry["star_count"] = 0
    /\ RepoAnswers # {}
    /\ TruthyN(world.libio_repo, "stargazers_count")
    /\ project_info["star_count"] >= world.libio_repo["stargazers_count"]

----------------------------------------------------------------------------
(* Order of the merges *)

\* the adapter that runs at position a, applied to record p with the answer
\* of its source in this run
Adapt(a, p) ==
    CASE a = "github_api" -> update_via_github_api(p, world.token, world.github_api)
      [] a = "libio_repo" -> update_repo_via_libio(p, world.libio_repo)
      [] a = "pypi" -> update_via_pypi(p, world.pypi, world.pypistats)
      [] a = "conda" -> update_via_conda(p, world.conda)
      [] a = "npm" -> update_via_npm(p, world.npm)
      [] a = "dockerhub" -> update_via_dockerhub(p, world.dockerhub)

\* the identifier the adapter at position a needs
IdentifierOf(a) ==
    CASE a \in {"github_api", "libio_repo"} -> "github_id"
      [] a = "pypi" -> "pypi_id"
      [] a = "conda" -> "conda_id"
      [] a = "npm" -> "npm_id"
      [] a = "dockerhub" -> "dockerhub_id"

Applies(a, p) == TruthyS(p, IdentifierOf(a))

MetricsAndDates == Metrics \cup {"created_at", "updated_at"}

\* the metrics and dates of a record, a missing one as the empty set
Numbers(p) == [f \in MetricsAndDates |-> IF Has(p, f) THEN {p[f]} ELSE {}]

DatesEitherOrderReached ==
    /\ pc = "github_api"
    /\ ~Has(project_info, "updated_at")
    /\ Applies("pypi", project_info) /\ Applies("dockerhub", project_info)
    /\ TruthyS(world.pypi, "latest_release_published_at")
    /\ ParseOk(world.pypi["latest_release_published_at"])
    /\ DockerhubAnswers # {} /\ TruthyS(world.dockerhub, "last_updated")
    /\ ParseOk(world.dockerhub["last_updated"])
    /\ parse(world.dockerhub["last_updated"]) > parse(world.pypi["latest_release_published_at"])
    /\ LET ab == Adapt("dockerhub", Adapt("pypi", project_info))
           ba == Adapt("pypi", Adapt("dockerhub", project_info))
       IN  /\ ab["updated_at"] = ba["updated_at"]
           /\ ab["updated_at"] >= parse(world.dockerhub["last_updated"])

====
